---- MODULE Spec2Model ----
(***************************************************************************)
(* Production planner for salmon packing (core/optimizer.py solve_plan).   *)
(* The integer program is assembled by solve_plan and handed to an         *)
(* external engine; the engine is modelled by its contract: it returns a   *)
(* status and, when it has one, an integral point satisfying every         *)
(* constraint that was added to the model.                                 *)
(* Floating point quantities are exact rationals <<n, d>> with d > 0.      *)
(***************************************************************************)
EXTENDS Integers, Sequences, FiniteSets, TLC

VARIABLES params, inputs_df, pc, VARS, ac, dpkc, constrs, status, X,
          objVal, plan_df, notes, logs, exc,
          yaml_file, yaml_copy, dem_file, csv_file, gpc, state, buttons,
          kpis_text, tree, popup, snapshot, delivered, xls_file, heur

(* files on disk and the widgets and state dict of app_gui.main *)
gvars == <<yaml_file, yaml_copy, dem_file, csv_file, gpc, state, buttons,
           kpis_text, tree, popup, snapshot, delivered, xls_file>>

vars == <<params, inputs_df, pc, VARS, ac, dpkc, constrs, status, X,
          objVal, plan_df, notes, logs, exc, gvars, heur>>

(***************************************************************************)
(* Bounds of the explored inputs.                                          *)
(***************************************************************************)
MaxCap == 3
MaxAvail == 3

(***************************************************************************)
(* Constants of the program.                                               *)
(***************************************************************************)
EpsInv == 1000000000
CongLimitKg == 22500
LbPerKg == <<220462, 100000>>
E_CONG == "Congelado"
P_HON == "HON"
J_EMPARRILLADO == "Emparrillado"
PLAN_COLUMNS == <<"linea", "empaque", "producto", "formato_caja", "calibre", "cajas", "piezas">>

C_MAP_DEFAULT ==
  [i \in 0..13 |->
     <<"1-2", "2-3", "3-4", "4-5", "5-6", "6-7", "7-8", "8-9", "9-10",
       "10-11", "11-12", "12-13", "13-14", "14+">>[i + 1]]

(***************************************************************************)
(* Python dict.get(key, default).                                          *)
(***************************************************************************)
Get(d, key, dflt) == IF key \in DOMAIN d THEN d[key] ELSE dflt

(***************************************************************************)
(* Exact rational arithmetic standing for the float expressions.           *)
(***************************************************************************)
Abs(a) == IF a < 0 THEN -a ELSE a

RECURSIVE GCD(_, _)
GCD(a, b) == IF b = 0 THEN (IF a = 0 THEN 1 ELSE a) ELSE GCD(b, a % b)

Norm(n, d) == LET g == GCD(Abs(n), Abs(d)) IN <<n \div g, d \div g>>

Q(i) == <<i, 1>>

RAdd(a, b) ==
  LET g == GCD(a[2], b[2])
  IN Norm(a[1] * (b[2] \div g) + b[1] * (a[2] \div g), a[2] * (b[2] \div g))

RMul(a, b) ==
  LET g1 == GCD(Abs(a[1]), b[2])
      g2 == GCD(Abs(b[1]), a[2])
  IN <<(a[1] \div g1) * (b[1] \div g2), (a[2] \div g2) * (b[2] \div g1)>>

RNeg(a) == <<-a[1], a[2]>>

RInv(a) == <<a[2], a[1]>>

RLeq(a, b) ==
  LET g == GCD(a[2], b[2])
  IN a[1] * (b[2] \div g) <= b[1] * (a[2] \div g)

RECURSIVE RSum(_, _)
RSum(f, n) == IF n = 0 THEN Q(0) ELSE RAdd(RSum(f, n - 1), f[n])

RECURSIVE ISum(_, _)
ISum(f, n) == IF n = 0 THEN 0 ELSE ISum(f, n - 1) + f[n]

(* v <= 1e-9, i.e. max(1e-9, v) evaluates to the floor *)
Floored(v) == v[1] <= v[2] \div EpsInv

(* normal + floored / 1e-9 <= rhs, without forming the product with 1e9 *)
LeqWithFloor(normal, floored, rhs) ==
  LET r == RAdd(rhs, RNeg(normal))
  IN floored[1] * r[2] <= (r[1] * floored[2]) \div EpsInv

(***************************************************************************)
(* Sets and technical parameters read from params (lines 33-96).           *)
(***************************************************************************)
SetP(pr) == pr.productos
SetJ(pr) == pr.lineas
SetE(pr) == pr.areas_empaque
SetK(pr) == pr.formatos_caja
C_map(pr) == IF "C_map" \in DOMAIN pr THEN pr.C_map ELSE C_MAP_DEFAULT
SetC(pr) == [i \in 1..Cardinality(DOMAIN C_map(pr)) |-> i - 1]
C_inv(pr) == [lab \in {C_map(pr)[i] : i \in DOMAIN C_map(pr)} |->
                CHOOSE i \in DOMAIN C_map(pr) : C_map(pr)[i] = lab]

Ukc(pr, k, c) == IF k \in DOMAIN pr.ukc THEN Get(pr.ukc[k], c, 0) ELSE 0
Sp(pr, p) == Get(Get(pr, "sp", <<>>), p, Q(1))
Yp(pr, p) == Get(Get(pr, "yp", <<>>), p, Q(1))
Wc(pr, c) == Get(Get(pr, "wc", <<>>), c, Q(0))
Qp(pr, p) == Get(Get(pr, "qp", <<>>), p, 1)
Rpk(pr, p, k) == IF p \in DOMAIN pr.rpk THEN Get(pr.rpk[p], k, 0) ELSE 0

(***************************************************************************)
(* bcj_map (lines 99-121).  A key of params["bcj"] is a pair <<c, j>> or   *)
(* the string "c,j", written <<"c,j", c, j>>; any other key is skipped.    *)
(* The per-line index lists and label lists are read when "bcj" is absent. *)
(***************************************************************************)
IsPairKey(key) == Len(key) = 2

IsStrKey(key) == Len(key) = 3 /\ key[1] = "c,j"

PairOf(key) == IF IsPairKey(key) THEN key ELSE <<key[2], key[3]>>

StrKey(c, j) == <<"c,j", c, j>>

bcj_map(pr) ==
  IF "bcj" \in DOMAIN pr
  THEN LET keys == {key \in DOMAIN pr.bcj : IsPairKey(key) \/ IsStrKey(key)}
       IN [cj \in {PairOf(key) : key \in keys} |->
             pr.bcj[CHOOSE key \in keys : PairOf(key) = cj]]
  ELSE IF "compatibilidad_indices" \in DOMAIN pr
  THEN LET ci == pr.compatibilidad_indices
       IN [cj \in UNION {{<<ci[j][n], j>> : n \in DOMAIN ci[j]} : j \in DOMAIN ci} |-> 1]
  ELSE IF "compatibilidad" \in DOMAIN pr
  THEN LET co == pr.compatibilidad
           inv == C_inv(pr)
       IN [cj \in UNION {{<<inv[co[j][n]], j>> :
                            n \in {m \in DOMAIN co[j] : co[j][m] \in DOMAIN inv}} :
                          j \in DOMAIN co} |-> 1]
  ELSE <<>>

HasLineCompat(pr) ==
  {"bcj", "compatibilidad_indices", "compatibilidad"} \cap DOMAIN pr # {}

(* fpe[(p,e)] built from compatibilidad_empaque (lines 124-125) *)
SeqToSet(s) == {s[i] : i \in DOMAIN s}

fpe(pr) ==
  LET compat_empaque == Get(pr, "compatibilidad_empaque", <<>>)
  IN [pe \in SeqToSet(SetP(pr)) \X SeqToSet(SetE(pr)) |->
        IF pe[2] \in SeqToSet(Get(compat_empaque, pe[1], <<>>)) THEN 1 ELSE 0]

(***************************************************************************)
(* Availability a_c (lines 131-149): YAML default, overridden by the       *)
(* 'salmones' column of inputs_df, summed per label; a 'piezas' frame only *)
(* produces a warning.                                                     *)
(***************************************************************************)
ac_yaml(pr) ==
  IF "ac" \in DOMAIN pr THEN pr.ac
  ELSE [c \in SeqToSet(SetC(pr)) |-> 0]

(* variant: a later row of a label replaces the earlier ones *)
GroupSumLast(rows, lab) ==
  LET idx == {i \in 1..Len(rows) : rows[i].calibre = lab}
  IN IF idx = {} THEN 0 ELSE rows[CHOOSE i \in idx : \A i2 \in idx : i2 <= i].n

GroupSum(rows, lab) ==
  ISum([i \in 1..Len(rows) |-> IF rows[i].calibre = lab THEN rows[i].n ELSE 0],
       Len(rows))

HasSalmones(df) == df.rows # <<>> /\ {"calibre", "salmones"} \subseteq df.columns

HasPiezasOnly(df) ==
  /\ df.rows # <<>>
  /\ ~ HasSalmones(df)
  /\ {"calibre", "piezas"} \subseteq df.columns

(* variant: a 'piezas' column overrides the availability as well *)
AcOverridePieces(pr, df) ==
  IF HasSalmones(df) \/ HasPiezasOnly(df)
  THEN LET labs == {df.rows[i].calibre : i \in 1..Len(df.rows)}
           hit == {C_inv(pr)[lab] : lab \in labs \cap DOMAIN C_inv(pr)}
           base == ac_yaml(pr)
       IN [c \in DOMAIN base \cup hit |->
             IF c \in hit THEN GroupSum(df.rows, C_map(pr)[c]) ELSE base[c]]
  ELSE ac_yaml(pr)

AcOverride(pr, df) ==
  IF HasSalmones(df)
  THEN LET labs == {df.rows[i].calibre : i \in 1..Len(df.rows)}
           hit == {C_inv(pr)[lab] : lab \in labs \cap DOMAIN C_inv(pr)}
           base == ac_yaml(pr)
       IN [c \in DOMAIN base \cup hit |->
             IF c \in hit THEN GroupSum(df.rows, C_map(pr)[c]) ELSE base[c]]
  ELSE ac_yaml(pr)

(***************************************************************************)
(* Detailed demand d_{p,k,c} (lines 154-165).  None is <<>>, a table d is  *)
(* <<d>>.                                                                  *)
(***************************************************************************)
DpkcOf(pr) == IF "dpkc" \in DOMAIN pr THEN <<pr.dpkc>> ELSE <<>>

DpkcTruthy(d) == d # <<>> /\ DOMAIN d[1] # {}

(***************************************************************************)
(* Variable space (lines 176-191): the nested loops p, j, e, k, c with     *)
(* their continue statements.                                              *)
(***************************************************************************)
AllTuples(pr) ==
  LET P == SetP(pr)  J == SetJ(pr)  E == SetE(pr)  K == SetK(pr)  C == SetC(pr)
      nC == Len(C)  nK == Len(K)  nE == Len(E)  nJ == Len(J)  nP == Len(P)
  IN [i \in 1..(nP * nJ * nE * nK * nC) |->
        LET i0 == i - 1
        IN << P[(i0 \div (nJ * nE * nK * nC)) + 1],
              J[((i0 \div (nE * nK * nC)) % nJ) + 1],
              E[((i0 \div (nK * nC)) % nE) + 1],
              K[((i0 \div nC) % nK) + 1],
              C[(i0 % nC) + 1] >>]

(* variant: the line-size compatibility is not tested *)
AdmissibleAnyLine(pr, t) ==
  /\ Get(fpe(pr), <<t[1], t[3]>>, 0) = 1
  /\ t[4] \in DOMAIN pr.ukc
  /\ Get(pr.ukc[t[4]], t[5], 0) > 0

(* variant: the pieces-per-box test admits a zero entry *)
AdmissibleZeroPieces(pr, t) ==
  /\ Get(fpe(pr), <<t[1], t[3]>>, 0) = 1
  /\ t[4] \in DOMAIN pr.ukc
  /\ Get(pr.ukc[t[4]], t[5], 0) >= 0
  /\ Get(bcj_map(pr), <<t[5], t[2]>>, 0) = 1

Admissible(pr, t) ==
  /\ Get(fpe(pr), <<t[1], t[3]>>, 0) = 1
  /\ t[4] \in DOMAIN pr.ukc
  /\ Get(pr.ukc[t[4]], t[5], 0) > 0
  /\ Get(bcj_map(pr), <<t[5], t[2]>>, 0) = 1

BuildVARS(pr) ==
  LET Keep(t) == Admissible(pr, t)
  IN SelectSeq(AllTuples(pr), Keep)

(***************************************************************************)
(* Constraint families added to the model (lines 204-271).  Each family    *)
(* records the indices for which addConstr was called.                     *)
(***************************************************************************)
HasVar(V, p, k, c) ==
  \E i \in 1..Len(V) : V[i][1] = p /\ V[i][4] = k /\ V[i][5] = c

(* variant: the mass constraint is never added *)
R7AreasNone(pr, V) == {}

R7Areas(pr, V) ==
  IF E_CONG \in SeqToSet(SetE(pr)) /\ (\E i \in 1..Len(V) : V[i][3] = E_CONG)
  THEN {E_CONG} ELSE {}

(* variant: the line test of the exclusion rule is inverted *)
HonOffLineInverted(V) ==
  {i \in 1..Len(V) : V[i][1] = P_HON /\ V[i][2] = J_EMPARRILLADO}

HonOffLine(V) ==
  {i \in 1..Len(V) : V[i][1] = P_HON /\ V[i][2] # J_EMPARRILLADO}

(* variant: the demand rows are added for the triples of the table only *)
BuildConstrsTableTriples(pr, V, d) ==
  [R1 |-> SeqToSet(SetC(pr)),
   R3 |-> SeqToSet(SetJ(pr)),
   R5 |-> SeqToSet(SetE(pr)),
   R6 |-> IF DpkcTruthy(d)
          THEN {t \in DOMAIN d[1] : HasVar(V, t[1], t[2], t[3])}
          ELSE {},
   R7 |-> R7Areas(pr, V),
   RX |-> HonOffLine(V)]

BuildConstrs(pr, V, d) ==
  [R1 |-> SeqToSet(SetC(pr)),
   R3 |-> SeqToSet(SetJ(pr)),
   R5 |-> SeqToSet(SetE(pr)),
   R6 |-> IF DpkcTruthy(d)
          THEN {t \in SeqToSet(SetP(pr)) \X SeqToSet(SetK(pr)) \X SeqToSet(SetC(pr)) :
                  HasVar(V, t[1], t[2], t[3])}
          ELSE {},
   R7 |-> R7Areas(pr, V),
   RX |-> HonOffLine(V)]

(***************************************************************************)
(* Left and right hand sides of the constraints, for a vector xs of box    *)
(* counts indexed like V.                                                  *)
(***************************************************************************)
SpYp(pr, p) == RMul(Sp(pr, p), Yp(pr, p))

Pieces(pr, V, xs, i) == Ukc(pr, V[i][4], V[i][5]) * xs[i]

(* variant: a product whose divisor is floored consumes nothing *)
R1HoldsSkipFloored(pr, V, a, xs, c) ==
  LET n == Len(V)
      normal == RSum([i \in 1..n |->
                        IF V[i][5] = c /\ ~ Floored(SpYp(pr, V[i][1]))
                        THEN RMul(Q(Pieces(pr, V, xs, i)), RInv(SpYp(pr, V[i][1])))
                        ELSE Q(0)], n)
  IN LeqWithFloor(normal, Q(0), Q(Get(a, c, 0)))

(* variant: pieces are compared with the availability without the divisor *)
R1HoldsNoDivisor(pr, V, a, xs, c) ==
  ISum([i \in 1..Len(V) |-> IF V[i][5] = c THEN Pieces(pr, V, xs, i) ELSE 0], Len(V))
    <= Get(a, c, 0)

(* R1, lines 205-212 *)
R1Holds(pr, V, a, xs, c) ==
  LET n == Len(V)
      normal == RSum([i \in 1..n |->
                        IF V[i][5] = c /\ ~ Floored(SpYp(pr, V[i][1]))
                        THEN RMul(Q(Pieces(pr, V, xs, i)), RInv(SpYp(pr, V[i][1])))
                        ELSE Q(0)], n)
      floored == ISum([i \in 1..n |->
                         IF V[i][5] = c /\ Floored(SpYp(pr, V[i][1]))
                         THEN Pieces(pr, V, xs, i) ELSE 0], n)
  IN LeqWithFloor(normal, Q(floored), Q(Get(a, c, 0)))

(* R3, lines 215-222 *)
LinePieces(pr, V, xs, j) ==
  ISum([i \in 1..Len(V) |-> IF V[i][2] = j THEN Pieces(pr, V, xs, i) ELSE 0], Len(V))

R3Holds(pr, V, xs, j) == LinePieces(pr, V, xs, j) <= pr.mj[j]

(* R5, lines 225-232 *)
AreaPieces(pr, V, xs, e) ==
  ISum([i \in 1..Len(V) |-> IF V[i][3] = e THEN Pieces(pr, V, xs, i) ELSE 0], Len(V))

R5Holds(pr, V, xs, e) == AreaPieces(pr, V, xs, e) <= pr.ne[e]

(* R6, lines 235-250 *)
TripleBoxes(V, xs, t) ==
  ISum([i \in 1..Len(V) |->
          IF V[i][1] = t[1] /\ V[i][4] = t[2] /\ V[i][5] = t[3] THEN xs[i] ELSE 0],
       Len(V))

R6Holds(V, d, xs, t) == TripleBoxes(V, xs, t) <= Get(d[1], t, 0)

(* R7, lines 254-266 *)
MassRhs == RMul(Q(CongLimitKg), LbPerKg)

R7Holds(pr, V, xs, e) ==
  LET n == Len(V)
      WY(i) == RMul(Wc(pr, V[i][5]), Yp(pr, V[i][1]))
      normal == RSum([i \in 1..n |->
                        IF V[i][3] = e /\ ~ Floored(Sp(pr, V[i][1]))
                        THEN RMul(RMul(Q(Pieces(pr, V, xs, i)), RInv(Sp(pr, V[i][1]))), WY(i))
                        ELSE Q(0)], n)
      floored == RSum([i \in 1..n |->
                         IF V[i][3] = e /\ Floored(Sp(pr, V[i][1]))
                         THEN RMul(Q(Pieces(pr, V, xs, i)), WY(i))
                         ELSE Q(0)], n)
  IN LeqWithFloor(normal, floored, MassRhs)

(* R_extra, lines 269-271 *)
RXHolds(xs, i) == xs[i] = 0

Satisfies(pr, V, a, d, cs, xs) ==
  /\ \A c \in cs.R1 : R1Holds(pr, V, a, xs, c)
  /\ \A j \in cs.R3 : R3Holds(pr, V, xs, j)
  /\ \A e \in cs.R5 : R5Holds(pr, V, xs, e)
  /\ \A t \in cs.R6 : R6Holds(V, d, xs, t)
  /\ \A e \in cs.R7 : R7Holds(pr, V, xs, e)
  /\ \A i \in cs.RX : RXHolds(xs, i)

(* objective, lines 196-202 *)
Objective(pr, V, xs) ==
  ISum([i \in 1..Len(V) |-> Qp(pr, V[i][1]) * Rpk(pr, V[i][1], V[i][4]) * xs[i]], Len(V))

(***************************************************************************)
(* The engine (m.optimize(), line 275).  Variables are integers with lower *)
(* bound 0 (line 193); every variable has a positive coefficient in the    *)
(* capacity row of its line, which bounds the points to enumerate.         *)
(***************************************************************************)
RECURSIVE Boxes(_, _, _)
Boxes(pr, V, n) ==
  IF n = 0 THEN {<<>>}
  ELSE UNION {
         LET j == V[n][2]
             used == ISum([i \in 1..(n - 1) |->
                             IF V[i][2] = j THEN Pieces(pr, V, s, i) ELSE 0], n - 1)
             ub == (pr.mj[j] - used) \div Ukc(pr, V[n][4], V[n][5])
         IN {Append(s, v) : v \in 0..ub}
         : s \in Boxes(pr, V, n - 1)}

Feasible(pr, V, a, d, cs) ==
  {xs \in Boxes(pr, V, Len(V)) : Satisfies(pr, V, a, d, cs, xs)}

SetMax(S) == CHOOSE m \in S : \A y \in S : y <= m

SolverOutcomes(pr, V, a, d, cs) ==
  LET F == Feasible(pr, V, a, d, cs)
      best == SetMax({Objective(pr, V, xs) : xs \in F})
  IN {[status |-> "OPTIMAL", X |-> <<xs>>] : xs \in {y \in F : Objective(pr, V, y) = best}}
     \cup {[status |-> "TIME_LIMIT", X |-> <<xs>>] : xs \in F}
     \cup {[status |-> "TIME_LIMIT", X |-> <<>>]}
     \cup {[status |-> st, X |-> <<>>] :
             st \in IF F = {} THEN {"INFEASIBLE", "INF_OR_UNBD"} ELSE {}}
     \cup {[status |-> "NUMERIC", X |-> <<>>]}

(***************************************************************************)
(* Notes appended by solve_plan.                                           *)
(***************************************************************************)
NOTE_PIEZAS == "Advertencia: 'inputs_df' trae 'piezas'"
NOTE_R7 == "R7 aplicada"
NOTE_NO_CONVERGE == "Modelo no convergio"
NOTE_EMPTY == "Sin resultados validos"
NOTE_DONE == "Optimizacion finalizada"
NOTE_ERROR == "Ocurrio un error durante la optimizacion"

USABLE == {"OPTIMAL", "TIME_LIMIT"}

NoPlan == [columns |-> <<>>, rows |-> <<>>]
NoConstrs == [R1 |-> {}, R3 |-> {}, R5 |-> {}, R6 |-> {}, R7 |-> {}, RX |-> {}]

(***************************************************************************)
(* Checks of lines 33-47, 63-65, 81-95, 120-121 and 220, 230 that raise    *)
(* inside the try block.  The first group raises before the availability   *)
(* is read (lines 127-149), the look-ups of lines 220 and 230 after it.    *)
(***************************************************************************)
EarlyParamsError(pr) ==
  \/ SetP(pr) = <<>> \/ SetJ(pr) = <<>> \/ SetE(pr) = <<>> \/ SetK(pr) = <<>>
  \/ "ukc" \notin DOMAIN pr \/ "rpk" \notin DOMAIN pr
  \/ "mj" \notin DOMAIN pr \/ DOMAIN pr.mj = {}
  \/ "ne" \notin DOMAIN pr \/ DOMAIN pr.ne = {}
  \/ ~ HasLineCompat(pr)

ParamsError(pr) ==
  \/ EarlyParamsError(pr)
  \/ ~ (SeqToSet(SetJ(pr)) \subseteq DOMAIN pr.mj)
  \/ ~ (SeqToSet(SetE(pr)) \subseteq DOMAIN pr.ne)

(***************************************************************************)
(* solve_plan, lines 28-271: sets, parameters, VARS, objective and         *)
(* constraints.                                                            *)
(***************************************************************************)
BuildModel ==
  /\ pc = "start"
  /\ IF ParamsError(params)
     THEN /\ pc' = "except"
          /\ exc' = IF EarlyParamsError(params) THEN "ValueError" ELSE "KeyError"
          /\ notes' = IF ~ EarlyParamsError(params) /\ HasPiezasOnly(inputs_df)
                      THEN Append(notes, NOTE_PIEZAS) ELSE notes
          /\ UNCHANGED <<VARS, ac, dpkc, constrs>>
     ELSE LET V == BuildVARS(params)
              d == DpkcOf(params)
          IN /\ VARS' = V
             /\ ac' = AcOverride(params, inputs_df)
             /\ dpkc' = d
             /\ constrs' = BuildConstrs(params, V, d)
             /\ notes' = notes
                         \o (IF HasPiezasOnly(inputs_df) THEN <<NOTE_PIEZAS>> ELSE <<>>)
                         \o (IF R7Areas(params, V) # {} THEN <<NOTE_R7>> ELSE <<>>)
             /\ pc' = "optimize"
             /\ exc' = exc
  /\ UNCHANGED <<heur, params, inputs_df, status, X, objVal, plan_df, logs, gvars>>

(***************************************************************************)
(* solve_plan, lines 275-278: run the engine and test its status.          *)
(***************************************************************************)
Optimize ==
  /\ pc = "optimize"
  /\ \E o \in SolverOutcomes(params, VARS, ac, dpkc, constrs) :
       /\ status' = o.status
       /\ X' = o.X
       /\ objVal' = IF o.X # <<>> THEN Objective(params, VARS, o.X[1]) ELSE objVal
       /\ IF o.status \notin USABLE
          THEN /\ notes' = Append(notes, NOTE_NO_CONVERGE)
               /\ exc' = "RuntimeError"
               /\ pc' = "except"
          ELSE /\ notes' = notes
               /\ exc' = exc
               /\ pc' = "extract"
  /\ UNCHANGED <<heur, params, inputs_df, VARS, ac, dpkc, constrs, plan_df, logs, gvars>>

(***************************************************************************)
(* solve_plan, lines 281-302: rows of the plan.  Reading .X of a variable  *)
(* when the engine holds no solution raises.                               *)
(***************************************************************************)
(* variant: a zero value passes the noise test *)
AboveNoiseInclusive(val) == val >= 0

AboveNoise(val) == val >= 1

PlanRow(pr, V, xs, i) ==
  [linea |-> V[i][2], empaque |-> V[i][3], producto |-> V[i][1],
   formato_caja |-> V[i][4], calibre |-> Get(C_map(pr), V[i][5], "?"),
   cajas |-> xs[i], piezas |-> Ukc(pr, V[i][4], V[i][5]) * xs[i]]

PlanRows(pr, V, xs) ==
  LET Keep(i) == AboveNoise(xs[i])
      idx == SelectSeq([i \in 1..Len(V) |-> i], Keep)
  IN [r \in 1..Len(idx) |-> PlanRow(pr, V, xs, idx[r])]

Extract ==
  /\ pc = "extract"
  /\ IF X = <<>>
     THEN /\ exc' = "AttributeError"
          /\ pc' = "except"
          /\ UNCHANGED <<plan_df, notes>>
     ELSE LET rows == PlanRows(params, VARS, X[1])
          IN /\ plan_df' = [columns |-> PLAN_COLUMNS, rows |-> rows]
             /\ notes' = Append(notes, IF rows = <<>> THEN NOTE_EMPTY ELSE NOTE_DONE)
             /\ pc' = "returned"
             /\ exc' = exc
  /\ UNCHANGED <<heur, params, inputs_df, VARS, ac, dpkc, constrs, status, X, objVal, logs, gvars>>

(***************************************************************************)
(* solve_plan, lines 304-315: the except clause writes the log and returns *)
(* an empty plan; its own file operations are not guarded.                 *)
(***************************************************************************)
ExceptHandler ==
  /\ pc = "except"
  /\ logs' = logs \cup {[file |-> "logs/error_gurobi", trace |-> exc]}
  /\ notes' = Append(notes, NOTE_ERROR)
  /\ plan_df' = [columns |-> PLAN_COLUMNS, rows |-> <<>>]
  /\ pc' = "returned"
  /\ UNCHANGED <<heur, params, inputs_df, VARS, ac, dpkc, constrs, status, X, objVal, exc, gvars>>

ExceptHandlerFails ==
  /\ pc = "except"
  /\ exc' = "OSError"
  /\ pc' = "raised"
  /\ UNCHANGED <<heur, params, inputs_df, VARS, ac, dpkc, constrs, status, X, objVal,
                 plan_df, notes, logs, gvars>>

Next == BuildModel \/ Optimize \/ Extract \/ ExceptHandler \/ ExceptHandlerFails

(***************************************************************************)
(* Inputs explored.  A configuration is the product of a variable-space    *)
(* option, a technical option, a capacity option and a demand option; the  *)
(* availability comes from the input frame.  Sizes "7-8" and "8-9" are the *)
(* indices 6 and 7 of the size map.                                        *)
(***************************************************************************)
BaseParams ==
  [productos |-> <<"HON", "Filete">>,
   lineas |-> <<"Emparrillado", "Fileteo">>,
   areas_empaque |-> <<"Congelado", "Fresco">>,
   formatos_caja |-> <<"K1", "K2">>,
   C_map |-> C_MAP_DEFAULT,
   qp |-> [HON |-> 2, Filete |-> 1],
   rpk |-> [HON |-> [K1 |-> 3], Filete |-> [K1 |-> 5, K2 |-> 4]]]

VarSpaceOpts ==
  { [ukc |-> [K1 |-> (6 :> 1 @@ 7 :> 2)],
     bcj |-> (<<6, "Emparrillado">> :> 1 @@ <<7, "Emparrillado">> :> 1
              @@ <<6, "Fileteo">> :> 1 @@ <<7, "Fileteo">> :> 0),
     compatibilidad_empaque |->
       [HON |-> <<"Congelado">>, Filete |-> <<"Congelado", "Fresco">>]],
    [ukc |-> [K1 |-> (6 :> 2 @@ 7 :> 0)],
     bcj |-> (<<6, "Emparrillado">> :> 1 @@ <<6, "Fileteo">> :> 1
              @@ <<7, "Fileteo">> :> 1),
     compatibilidad_empaque |->
       [HON |-> <<"Congelado", "Fresco">>, Filete |-> <<"Congelado", "Fresco">>]],
    [ukc |-> [K1 |-> (6 :> 1 @@ 7 :> 1 @@ 8 :> 1)],
     bcj |-> (<<6, "Emparrillado">> :> 1 @@ <<7, "Fileteo">> :> 1
              @@ <<7, "Emparrillado">> :> 2),
     compatibilidad_empaque |-> [HON |-> <<"Fresco">>, Filete |-> <<"Fresco">>]] }

TechOpts ==
  { [sp |-> [HON |-> Q(1), Filete |-> Q(4)],
     yp |-> [HON |-> Q(1), Filete |-> <<1, 2>>],
     wc |-> (6 :> Q(8) @@ 7 :> Q(10))],
    [sp |-> [HON |-> Q(1), Filete |-> Q(1)],
     yp |-> [HON |-> Q(1), Filete |-> Q(1)],
     wc |-> (6 :> Q(20000) @@ 7 :> Q(10))],
    [sp |-> [HON |-> Q(0), Filete |-> Q(2)],
     yp |-> [HON |-> Q(1), Filete |-> <<1, 2>>],
     wc |-> (6 :> Q(8) @@ 7 :> Q(10))],
    [sp |-> [HON |-> Q(1), Filete |-> Q(2)],
     yp |-> [HON |-> Q(1), Filete |-> Q(0)],
     wc |-> (6 :> Q(8) @@ 7 :> Q(10))] }

CapOpts ==
  { [mj |-> [Emparrillado |-> MaxCap, Fileteo |-> MaxCap - 1],
     ne |-> [Congelado |-> MaxCap + 1, Fresco |-> MaxCap]],
    [mj |-> [Emparrillado |-> MaxCap - 1, Fileteo |-> MaxCap],
     ne |-> [Congelado |-> 1, Fresco |-> 2]],
    [mj |-> [Emparrillado |-> -1, Fileteo |-> MaxCap - 1],
     ne |-> [Congelado |-> MaxCap, Fresco |-> MaxCap]] }

DemandOpts ==
  { <<>>,
    <<(<<"Filete", "K1", 6>> :> 1 @@ <<"HON", "K1", 6>> :> 2)>>,
    <<(<<"Filete", "K1", 6>> :> -1 @@ <<"Filete", "K1", 7>> :> 1)>>,
    <<[t \in {} |-> 0]>> }

WithDemand(pr, d) == IF d = <<>> THEN pr ELSE pr @@ [dpkc |-> d[1]]

ParamSpace ==
  { WithDemand(BaseParams @@ v @@ t @@ c, d) :
      v \in VarSpaceOpts, t \in TechOpts, c \in CapOpts, d \in DemandOpts }

InputFrames ==
  { [columns |-> {"calibre", "salmones"},
     rows |-> <<[calibre |-> "7-8", n |-> MaxAvail], [calibre |-> "8-9", n |-> 2]>>],
    [columns |-> {"calibre", "salmones"},
     rows |-> <<[calibre |-> "7-8", n |-> 1], [calibre |-> "7-8", n |-> MaxAvail - 1]>>],
    [columns |-> {"calibre", "salmones"},
     rows |-> <<[calibre |-> "7-8", n |-> -1], [calibre |-> "8-9", n |-> MaxAvail]>>],
    [columns |-> {"calibre", "piezas"},
     rows |-> <<[calibre |-> "7-8", n |-> MaxAvail]>>] }

(* the allocator chosen is the exact one: the heuristic holds no state *)
HeurIdle == [i |-> 0, uso_linea |-> <<>>, uso_empaque |-> <<>>, rr |-> 0, usage |-> <<>>]

InitLocals ==
  /\ pc = "start"
  /\ VARS = <<>>
  /\ ac = <<>>
  /\ dpkc = <<>>
  /\ constrs = NoConstrs
  /\ status = "LOADED"
  /\ X = <<>>
  /\ objVal = 0
  /\ plan_df = NoPlan
  /\ notes = <<>>
  /\ logs = {}
  /\ exc = "none"
  /\ heur = HeurIdle

(* solve_plan called on its own: no file is read and no window exists *)
BUTTONS == {"run", "xls", "png", "edit_cap"}

InitNoGui ==
  /\ yaml_file = <<>>
  /\ yaml_copy = <<>>
  /\ dem_file = <<>>
  /\ csv_file = <<>>
  /\ gpc = "direct"
  /\ state = [last_outputs |-> <<>>, params_loaded |-> <<>>]
  /\ buttons = [b \in BUTTONS |-> "normal"]
  /\ kpis_text = <<>>
  /\ tree = <<>>
  /\ popup = "closed"
  /\ snapshot = [run |-> <<>>, edit |-> <<>>]
  /\ delivered = [result |-> 0, failure |-> 0]
  /\ xls_file = <<>>

Init ==
  /\ params \in ParamSpace
  /\ inputs_df \in InputFrames
  /\ InitLocals
  /\ InitNoGui

Spec == Init /\ [][Next]_vars

(***************************************************************************)
(* solve_plan called with an availability configured in params['ac']      *)
(* (line 131) or without one, on frames that carry a 'piezas' column.      *)
(***************************************************************************)
AcOpts == {<<>>, <<(6 :> 2 @@ 7 :> 1)>>, <<(6 :> MaxAvail)>>}

WithAc(pr, a) == IF a = <<>> THEN pr ELSE pr @@ [ac |-> a[1]]

ConfiguredSpace ==
  { WithAc(pr, a) :
      pr \in {q \in ParamSpace : "dpkc" \notin DOMAIN q /\ q.mj["Emparrillado"] = MaxCap},
      a \in AcOpts }

PiecesFrames ==
  { [columns |-> {"calibre", "piezas"},
     rows |-> <<[calibre |-> "7-8", n |-> MaxAvail + 1]>>],
    [columns |-> {"calibre", "piezas"},
     rows |-> <<[calibre |-> "8-9", n |-> 1], [calibre |-> "7-8", n |-> 1]>>],
    [columns |-> {"calibre", "salmones"},
     rows |-> <<[calibre |-> "7-8", n |-> 1]>>] }

InitP ==
  /\ params \in ConfiguredSpace
  /\ inputs_df \in PiecesFrames
  /\ InitLocals
  /\ InitNoGui

SpecP == InitP /\ [][Next]_vars

(***************************************************************************)
(* Scenario A of the specification: two lines, one packing area, one       *)
(* product, one box format of 5 pieces for size "7-8".                     *)
(***************************************************************************)
ScenarioA ==
  [productos |-> <<"Filete">>,
   lineas |-> <<"L1", "L2">>,
   areas_empaque |-> <<"Empaque">>,
   formatos_caja |-> <<"K1">>,
   C_map |-> C_MAP_DEFAULT,
   ukc |-> [K1 |-> (6 :> 5)],
   wc |-> (6 :> Q(8)),
   sp |-> [Filete |-> Q(2)],
   yp |-> [Filete |-> Q(1)],
   qp |-> [Filete |-> 1],
   rpk |-> [Filete |-> [K1 |-> 10]],
   mj |-> [L1 |-> 1000, L2 |-> 800],
   ne |-> [Empaque |-> 2000],
   bcj |-> (<<6, "L1">> :> 1 @@ <<6, "L2">> :> 1),
   compatibilidad_empaque |-> [Filete |-> <<"Empaque">>]]

FrameA ==
  [columns |-> {"calibre", "salmones"}, rows |-> <<[calibre |-> "7-8", n |-> 500]>>]

InitA ==
  /\ params = ScenarioA
  /\ inputs_df = FrameA
  /\ InitLocals
  /\ InitNoGui

SpecA == InitA /\ [][Next]_vars

(***************************************************************************)
(* Scenario C of the specification: size "8-9" (index 7) has pieces per    *)
(* box and availability but no compatible line; in the last two options no *)
(* size class has a compatible line.                                       *)
(***************************************************************************)
ScenarioCBase ==
  [productos |-> <<"Filete">>,
   lineas |-> <<"L1", "L2">>,
   areas_empaque |-> <<"Empaque">>,
   formatos_caja |-> <<"K1">>,
   C_map |-> C_MAP_DEFAULT,
   ukc |-> [K1 |-> (6 :> 1 @@ 7 :> 1)],
   wc |-> (6 :> Q(8) @@ 7 :> Q(10)),
   sp |-> [Filete |-> Q(1)],
   yp |-> [Filete |-> Q(1)],
   qp |-> [Filete |-> 1],
   rpk |-> [Filete |-> [K1 |-> 10]],
   mj |-> [L1 |-> MaxCap, L2 |-> 2],
   ne |-> [Empaque |-> MaxCap + 1],
   compatibilidad_empaque |-> [Filete |-> <<"Empaque">>]]

ScenarioCLines ==
  { (<<6, "L1">> :> 1 @@ <<6, "L2">> :> 1),
    (<<6, "L1">> :> 1 @@ <<7, "L1">> :> 0 @@ <<7, "L2">> :> 0),
    (<<6, "L1">> :> 0 @@ <<7, "L2">> :> 0),
    [cj \in {} |-> 1] }

ScenarioC == {ScenarioCBase @@ [bcj |-> b] : b \in ScenarioCLines}

FramesC ==
  { [columns |-> {"calibre", "salmones"},
     rows |-> <<[calibre |-> "7-8", n |-> a], [calibre |-> "8-9", n |-> b]>>] :
      a \in 0..MaxAvail, b \in 1..MaxAvail }

InitC ==
  /\ params \in ScenarioC
  /\ inputs_df \in FramesC
  /\ InitLocals
  /\ InitNoGui

SpecC == InitC /\ [][Next]_vars

(***************************************************************************)
(* dataio/loaders.py.  A loader returns [raises |-> FALSE, value |-> v] or *)
(* [raises |-> TRUE, value |-> the message].  A YAML document is a         *)
(* function from its keys; the dict "lineas" is written as the sequence of *)
(* its keys.                                                               *)
(***************************************************************************)
Ok(v) == [raises |-> FALSE, value |-> v]

Raise(msg) == [raises |-> TRUE, value |-> msg]

Put(d, key, val) == [x \in DOMAIN d \cup {key} |-> IF x = key THEN val ELSE d[x]]

Pop(d, key) == [x \in DOMAIN d \ {key} |-> d[x]]

(* _normalize_cmap, lines 15-28 *)
normalize_cmap(cmap) ==
  [i \in 0..13 |-> IF i \in DOMAIN cmap /\ cmap[i] # "" THEN cmap[i] ELSE C_MAP_DEFAULT[i]]

(* load_params, lines 174-183: the keys that must be present and non-empty *)
LacksBasicKey(d) ==
  \/ \E k \in {"productos", "areas_empaque", "formatos_caja"} :
       k \notin DOMAIN d \/ d[k] = <<>>
  \/ "lineas" \notin DOMAIN d \/ d.lineas = <<>>

(* load_params, lines 195-225: the tables that must be present *)
LacksTable(d) ==
  \E k \in {"ukc", "sp", "yp", "qp", "rpk", "mj", "ne"} : k \notin DOMAIN d

(* load_params, lines 228-248: the compatibility read into (c, j) pairs *)
LoadBcjBranch(d) ==
  IF "bcj" \in DOMAIN d /\ DOMAIN d.bcj # {} THEN "bcj"
  ELSE IF "compatibilidad_indices" \in DOMAIN d THEN "compatibilidad_indices"
  ELSE IF "compatibilidad" \in DOMAIN d THEN "compatibilidad"
  ELSE "none"

BadCompatLabel(d) ==
  /\ LoadBcjBranch(d) = "compatibilidad"
  /\ \E j \in DOMAIN d.compatibilidad : \E n \in DOMAIN d.compatibilidad[j] :
       d.compatibilidad[j][n] \notin DOMAIN C_inv(d)

LoadBcj(d) ==
  IF LoadBcjBranch(d) = "none" THEN <<>>
  ELSE bcj_map(IF LoadBcjBranch(d) = "bcj" THEN d ELSE Pop(d, "bcj"))

(* load_params, lines 253-266 *)
BadCompatEmpaque(d) ==
  /\ "compatibilidad_empaque" \in DOMAIN d
  /\ \E i \in DOMAIN d.productos :
       \/ d.productos[i] \notin DOMAIN d.compatibilidad_empaque
       \/ \E n \in DOMAIN d.compatibilidad_empaque[d.productos[i]] :
            d.compatibilidad_empaque[d.productos[i]][n] \notin SeqToSet(d.areas_empaque)

(* variant: an omitted product-area compatibility allows no area *)
DefaultCompatEmpaqueNone(d) == [p \in SeqToSet(d.productos) |-> <<>>]

DefaultCompatEmpaque(d) == [p \in SeqToSet(d.productos) |-> d.areas_empaque]

LoadCompatEmpaque(d) ==
  IF "compatibilidad_empaque" \notin DOMAIN d
  THEN DefaultCompatEmpaque(d)
  ELSE [p \in SeqToSet(d.productos) |-> d.compatibilidad_empaque[p]]

(* load_params, lines 168-272 *)
load_params(doc) ==
  LET d0 == IF "productos" \notin DOMAIN doc /\ "formatos" \in DOMAIN doc
            THEN Put(doc, "productos", doc.formatos) ELSE doc
  IN IF LacksBasicKey(d0) THEN Raise("Falta lista o diccionario")
     ELSE LET d1 == Put(d0, "C_map", normalize_cmap(Get(d0, "C_map", <<>>)))
          IN IF LacksTable(d1) THEN Raise("Falta tabla")
             ELSE LET d2 == Put(d1, "wc", Get(d1, "wc", <<>>))
                  IN IF BadCompatLabel(d2) THEN Raise("Etiqueta de calibre no existe")
                     ELSE LET b == LoadBcj(d2)
                              d3 == IF DOMAIN b # {}
                                    THEN Put(d2, "bcj",
                                             [key \in {StrKey(cj[1], cj[2]) : cj \in DOMAIN b}
                                                |-> b[PairOf(key)]])
                                    ELSE d2
                          IN IF BadCompatEmpaque(d3) THEN Raise("compatibilidad_empaque")
                             ELSE Ok(Pop(Pop(Put(d3, "compatibilidad_empaque",
                                                 LoadCompatEmpaque(d3)), "ac"), "dpkc"))

(***************************************************************************)
(* A data file is [ext, columns, rows].  load_demand, lines 76-137.        *)
(***************************************************************************)
SUPPORTED_EXT == {"xlsx", "xls", "csv"}

IsDemandSchema(f) ==
  /\ {"producto", "formato", "demanda_cajas"} \subseteq f.columns
  /\ ("calibre_idx" \in f.columns \/ "calibre" \in f.columns)

IsAvailabilitySchema(f) ==
  "calibre" \in f.columns /\ ("salmones" \in f.columns \/ "piezas" \in f.columns)

(* _to_idx_from_label, lines 30-40, applied when calibre_idx is absent *)
UnknownDemandLabel(f, c_map) ==
  /\ "calibre_idx" \notin f.columns
  /\ \E i \in DOMAIN f.rows : f.rows[i].calibre \notin {c_map[c] : c \in DOMAIN c_map}

DemandIdx(f, c_map, r) ==
  IF "calibre_idx" \in f.columns THEN r.calibre_idx
  ELSE CHOOSE c \in DOMAIN c_map : c_map[c] = r.calibre

DemandKey(f, c_map, r) == <<r.producto, r.formato, DemandIdx(f, c_map, r)>>

(* groupby(...)["demanda_cajas"].sum(), lines 121-125 *)
DemandTable(f, c_map) ==
  [t \in {DemandKey(f, c_map, f.rows[i]) : i \in DOMAIN f.rows} |->
     ISum([i \in DOMAIN f.rows |->
             IF DemandKey(f, c_map, f.rows[i]) = t THEN f.rows[i].demanda_cajas ELSE 0],
          Len(f.rows))]

EmptyFrame == [columns |-> {}, rows |-> <<>>]

(* the value is the pair of params after the call and the returned frame *)
load_demand(f, pr) ==
  IF f.ext \notin SUPPORTED_EXT THEN Raise("Formato no soportado")
  ELSE IF IsDemandSchema(f)
  THEN LET c_map == normalize_cmap(Get(pr, "C_map", <<>>))
       IN IF UnknownDemandLabel(f, c_map) THEN Raise("Etiqueta de calibre no existe")
          ELSE Ok([params |-> Put(pr, "dpkc", DemandTable(f, c_map)), df |-> EmptyFrame])
  ELSE IF IsAvailabilitySchema(f)
  THEN Ok([params |-> pr, df |-> [columns |-> f.columns, rows |-> f.rows]])
  ELSE Raise("No reconozco el esquema del archivo")

(* load_inputs, lines 139-158 *)
load_inputs(f) ==
  IF f.ext \notin SUPPORTED_EXT THEN Raise("Formato no soportado")
  ELSE IF "calibre" \notin f.columns THEN Raise("Falta columna 'calibre'")
  ELSE IF "salmones" \notin f.columns /\ "piezas" \notin f.columns
  THEN Raise("Falta columna 'salmones' o 'piezas'")
  ELSE Ok([columns |-> f.columns, rows |-> f.rows])

(***************************************************************************)
(* core/kpis.py build_kpis_text: the quantities the text is built from     *)
(* (lines 11-72).  A quotient num / max(1e-9, div) is kept as the pair     *)
(* [normal, floored]: its value is normal + floored * 1e9, and floored is  *)
(* non-zero only when the divisor was replaced by the floor.  A mass is    *)
(* kept in pounds; the division by 2.20462 of line 60 is applied where the *)
(* mass is compared.                                                       *)
(***************************************************************************)
GuardedDiv(num, div) ==
  IF Floored(div) THEN [normal |-> Q(0), floored |-> num]
  ELSE [normal |-> RMul(num, RInv(div)), floored |-> Q(0)]

GuardedSum(f, n) ==
  [normal |-> RSum([i \in 1..n |-> f[i].normal], n),
   floored |-> RSum([i \in 1..n |-> f[i].floored], n)]

GuardedZero == [normal |-> Q(0), floored |-> Q(0)]

(* C_inv.get(str(c_label), None), lines 28-29 and 41 *)
KpiIdx(pr, lab) ==
  LET cm == Get(pr, "C_map", <<>>)
      hit == {c \in DOMAIN cm : cm[c] = lab}
  IN IF hit = {} THEN <<>> ELSE <<CHOOSE c \in hit : TRUE>>

(* ukc.get(str(k), {}).get(int(c_idx), 0) * row["cajas"], lines 44-45 *)
KpiPieces(pr, r, c) == Get(Get(Get(pr, "ukc", <<>>), r.formato_caja, <<>>), c, 0) * r.cajas

(* variant: the yield is left out of the divisor *)
KpiSalmonesNoYield(rows, pr) ==
  GuardedSum([i \in 1..Len(rows) |->
                LET c == KpiIdx(pr, rows[i].calibre)
                IN IF c = <<>> THEN GuardedZero
                   ELSE GuardedDiv(Q(KpiPieces(pr, rows[i], c[1])),
                                   Sp(pr, rows[i].producto))],
             Len(rows))

(* lines 38-45 *)
KpiSalmones(rows, pr) ==
  GuardedSum([i \in 1..Len(rows) |->
                LET c == KpiIdx(pr, rows[i].calibre)
                IN IF c = <<>> THEN GuardedZero
                   ELSE GuardedDiv(Q(KpiPieces(pr, rows[i], c[1])),
                                   SpYp(pr, rows[i].producto))],
             Len(rows))

(* lines 48-60, in pounds *)
KpiMasa(rows, pr) ==
  GuardedSum([i \in 1..Len(rows) |->
                LET c == KpiIdx(pr, rows[i].calibre)
                IN IF rows[i].empaque # E_CONG \/ c = <<>> THEN GuardedZero
                   ELSE GuardedDiv(RMul(Q(KpiPieces(pr, rows[i], c[1])),
                                        RMul(Wc(pr, c[1]), Yp(pr, rows[i].producto))),
                                   Sp(pr, rows[i].producto))],
             Len(rows))

(* lines 65-70: computed from the rows when the outputs carry no usage *)
KpiUsage(rows, pr) ==
  LET mj == Get(pr, "mj", <<>>)
  IN [linea \in DOMAIN mj |->
        GuardedDiv(Q(100 * ISum([i \in 1..Len(rows) |->
                                   IF rows[i].linea = linea THEN rows[i].piezas ELSE 0],
                                Len(rows))),
                   Q(mj[linea]))]

(* variant: the estimate of raw units is computed without the yield *)
build_kpis_text_no_yield(outputs, pr) ==
  LET rows == outputs.plan_df.rows
      usage == Get(outputs, "usage", <<>>)
  IN IF rows = <<>>
     THEN [sin_resultados |-> TRUE, total_piezas |-> 0, total_cajas |-> 0,
           salmones_total |-> GuardedZero, masa_congelado |-> GuardedZero,
           usage |-> <<>>]
     ELSE [sin_resultados |-> FALSE,
           total_piezas |-> ISum([i \in DOMAIN rows |-> rows[i].piezas], Len(rows)),
           total_cajas |-> ISum([i \in DOMAIN rows |-> rows[i].cajas], Len(rows)),
           salmones_total |-> KpiSalmonesNoYield(rows, pr),
           masa_congelado |-> KpiMasa(rows, pr),
           usage |-> IF DOMAIN usage # {} THEN usage ELSE KpiUsage(rows, pr)]

build_kpis_text(outputs, pr) ==
  LET rows == outputs.plan_df.rows
      usage == Get(outputs, "usage", <<>>)
  IN IF rows = <<>>
     THEN [sin_resultados |-> TRUE, total_piezas |-> 0, total_cajas |-> 0,
           salmones_total |-> GuardedZero, masa_congelado |-> GuardedZero,
           usage |-> <<>>]
     ELSE [sin_resultados |-> FALSE,
           total_piezas |-> ISum([i \in DOMAIN rows |-> rows[i].piezas], Len(rows)),
           total_cajas |-> ISum([i \in DOMAIN rows |-> rows[i].cajas], Len(rows)),
           salmones_total |-> KpiSalmones(rows, pr),
           masa_congelado |-> KpiMasa(rows, pr),
           usage |-> IF DOMAIN usage # {} THEN usage ELSE KpiUsage(rows, pr)]

(***************************************************************************)
(* viz/charts.py make_figures (lines 67-95): the figures returned for a    *)
(* plan.  Neither function writes to params.                               *)
(***************************************************************************)
make_figures(outputs, pr) ==
  IF outputs.plan_df.rows = <<>> THEN {}
  ELSE {"barras_producto", "apilado_linea", "apilado_empaque", "cajas_por_formato",
        "piezas_por_calibre"}

(***************************************************************************)
(* app_gui.py.  set_busy (lines 390-396) gives the four buttons one state. *)
(***************************************************************************)
(* variant: the buttons are never enabled again *)
set_busy_stuck(is_busy) == [b \in BUTTONS |-> "disabled"]

set_busy(is_busy) == [b \in BUTTONS |-> IF is_busy THEN "disabled" ELSE "normal"]

(* on_run, lines 441-460: the three files exist; the buttons are disabled *)
OnRun ==
  /\ gpc = "idle"
  /\ popup = "closed"
  /\ buttons["run"] = "normal"
  /\ yaml_file # <<>> /\ dem_file # <<>> /\ csv_file # <<>>
  /\ buttons' = set_busy(TRUE)
  /\ delivered' = [result |-> 0, failure |-> 0]
  /\ gpc' = "load_params"
  /\ UNCHANGED <<heur, xls_file, params, inputs_df, pc, VARS, ac, dpkc, constrs, status, X, objVal,
                 plan_df, notes, logs, exc, yaml_file, yaml_copy, dem_file, csv_file,
                 state, kpis_text, tree, popup, snapshot>>

(* pipeline, line 30 *)
PipelineLoadParams ==
  /\ gpc = "load_params"
  /\ LET r == load_params(yaml_file[1])
     IN IF r.raises
        THEN /\ gpc' = "except"
             /\ UNCHANGED <<params, snapshot>>
        ELSE /\ params' = r.value
             /\ snapshot' = [snapshot EXCEPT !.run = <<r.value>>]
             /\ gpc' = "load_demand"
  /\ UNCHANGED <<heur, xls_file, inputs_df, pc, VARS, ac, dpkc, constrs, status, X, objVal, plan_df,
                 notes, logs, exc, yaml_file, yaml_copy, dem_file, csv_file, state,
                 buttons, kpis_text, tree, popup, delivered>>

(* pipeline, line 31: load_demand stores the demand table in params *)
PipelineLoadDemand ==
  /\ gpc = "load_demand"
  /\ LET r == load_demand(dem_file[1], params)
     IN IF r.raises
        THEN /\ gpc' = "except"
             /\ UNCHANGED params
        ELSE /\ params' = r.value.params
             /\ gpc' = "load_inputs"
  /\ UNCHANGED <<heur, xls_file, inputs_df, pc, VARS, ac, dpkc, constrs, status, X, objVal, plan_df,
                 notes, logs, exc, yaml_file, yaml_copy, dem_file, csv_file, state,
                 buttons, kpis_text, tree, popup, snapshot, delivered>>

(* pipeline, lines 32-33: load_inputs, then solve_plan is entered *)
PipelineLoadInputs ==
  /\ gpc = "load_inputs"
  /\ LET r == load_inputs(csv_file[1])
     IN IF r.raises
        THEN /\ gpc' = "except"
             /\ UNCHANGED <<inputs_df, pc, VARS, ac, dpkc, constrs, status, X, objVal,
                            plan_df, notes, exc>>
        ELSE /\ inputs_df' = r.value
             /\ gpc' = "solve_plan"
             /\ pc' = "start"
             /\ VARS' = <<>>
             /\ ac' = <<>>
             /\ dpkc' = <<>>
             /\ constrs' = NoConstrs
             /\ status' = "LOADED"
             /\ X' = <<>>
             /\ objVal' = 0
             /\ plan_df' = NoPlan
             /\ notes' = <<>>
             /\ exc' = "none"
  /\ UNCHANGED <<heur, xls_file, params, logs, yaml_file, yaml_copy, dem_file, csv_file, state,
                 buttons, kpis_text, tree, popup, snapshot, delivered>>

(* pipeline, lines 34-41, and on_run, lines 463-465 *)
PipelineReturn ==
  /\ gpc = "solve_plan"
  /\ pc = "returned"
  /\ LET outputs == [plan_df |-> plan_df, notes |-> notes]
         result == [plan_df |-> plan_df,
                    kpis_text |-> build_kpis_text(outputs, params),
                    figs |-> make_figures(outputs, params),
                    notes |-> notes]
     IN /\ state' = [state EXCEPT !.last_outputs = <<result>>]
        /\ kpis_text' = <<result.kpis_text>>
        /\ tree' = result.plan_df.rows
  /\ delivered' = [delivered EXCEPT !.result = @ + 1]
  /\ gpc' = "finally"
  /\ UNCHANGED <<heur, xls_file, params, inputs_df, pc, VARS, ac, dpkc, constrs, status, X, objVal,
                 plan_df, notes, logs, exc, yaml_file, yaml_copy, dem_file, csv_file,
                 buttons, popup, snapshot>>

(* an exception leaving solve_plan propagates through pipeline *)
PipelineRaised ==
  /\ gpc = "solve_plan"
  /\ pc = "raised"
  /\ gpc' = "except"
  /\ UNCHANGED <<heur, xls_file, params, inputs_df, pc, VARS, ac, dpkc, constrs, status, X, objVal,
                 plan_df, notes, logs, exc, yaml_file, yaml_copy, dem_file, csv_file,
                 state, buttons, kpis_text, tree, popup, snapshot, delivered>>

(* variant: a failed run empties the table and forgets the last result *)
OnRunExceptClears ==
  /\ gpc = "except"
  /\ delivered' = [delivered EXCEPT !.failure = @ + 1]
  /\ gpc' = "finally"
  /\ state' = [state EXCEPT !.last_outputs = <<>>]
  /\ tree' = <<>>
  /\ UNCHANGED <<heur, xls_file, params, inputs_df, pc, VARS, ac, dpkc, constrs, status, X, objVal,
                 plan_df, notes, logs, exc, yaml_file, yaml_copy, dem_file, csv_file,
                 buttons, kpis_text, popup, snapshot>>

(* on_run, lines 466-468 *)
OnRunExcept ==
  /\ gpc = "except"
  /\ delivered' = [delivered EXCEPT !.failure = @ + 1]
  /\ gpc' = "finally"
  /\ UNCHANGED <<heur, xls_file, params, inputs_df, pc, VARS, ac, dpkc, constrs, status, X, objVal,
                 plan_df, notes, logs, exc, yaml_file, yaml_copy, dem_file, csv_file,
                 state, buttons, kpis_text, tree, popup, snapshot>>

(* on_run, lines 469-470; the frames of pipeline and solve_plan are gone *)
OnRunFinally ==
  /\ gpc = "finally"
  /\ buttons' = set_busy(FALSE)
  /\ gpc' = "idle"
  /\ params' = <<>>
  /\ inputs_df' = EmptyFrame
  /\ pc' = "none"
  /\ VARS' = <<>>
  /\ ac' = <<>>
  /\ dpkc' = <<>>
  /\ constrs' = NoConstrs
  /\ status' = "LOADED"
  /\ X' = <<>>
  /\ objVal' = 0
  /\ plan_df' = NoPlan
  /\ notes' = <<>>
  /\ exc' = "none"
  /\ snapshot' = [snapshot EXCEPT !.run = <<>>]
  /\ UNCHANGED <<heur, xls_file, logs, yaml_file, yaml_copy, dem_file, csv_file, state, kpis_text,
                 tree, popup, delivered>>

(***************************************************************************)
(* pipeline, lines 33-34, on parameters and a frame handed over directly:  *)
(* the KPIs are computed from what solve_plan returned.                    *)
(***************************************************************************)
PipelineKpis ==
  /\ gpc = "direct"
  /\ pc = "returned"
  /\ kpis_text' = <<build_kpis_text([plan_df |-> plan_df, notes |-> notes], params)>>
  /\ pc' = "reported"
  /\ UNCHANGED <<heur, xls_file, params, inputs_df, VARS, ac, dpkc, constrs, status, X, objVal,
                 plan_df, notes, logs, exc, yaml_file, yaml_copy, dem_file, csv_file,
                 gpc, state, buttons, tree, popup, snapshot, delivered>>

NextK == Next \/ PipelineKpis

SpecK == Init /\ [][NextK]_vars

(***************************************************************************)
(* The greedy heuristic (allocator strategy B), as the specification       *)
(* describes it: the rows of available pieces are processed one by one.    *)
(* For a row, the lines compatible with its size class are taken, the      *)
(* free capacity of each is its capacity minus the pieces already on it,   *)
(* and the pieces of the row are split in proportion to the free capacity  *)
(* with integer truncation.  The share of a line is capped by its free     *)
(* capacity and also by what is left of the global packing capacity.  The  *)
(* product is the first one of the round-robin sequence, from the current  *)
(* position on, that has an allowed area not yet exhausted; the area is    *)
(* the first such one of its priority list.                                *)
(***************************************************************************)
Min(a, b) == IF a <= b THEN a ELSE b

HeurCompatLines(pr, lab) ==
  LET Keep(j) == lab \in SeqToSet(Get(pr.compatibilidad, j, <<>>))
  IN SelectSeq(pr.lineas, Keep)

HeurFree(pr, uso_linea, j) == pr.mj[j] - uso_linea[j]

HeurPackLeft(pr, uso_empaque) ==
  ISum([n \in 1..Len(pr.areas_empaque) |->
          pr.ne[pr.areas_empaque[n]] - uso_empaque[pr.areas_empaque[n]]],
       Len(pr.areas_empaque))

(* the areas of product p, in priority order, that are not exhausted *)
HeurOpenAreas(pr, uso_empaque, p) ==
  LET Keep(e) == uso_empaque[e] < pr.ne[e]
  IN SelectSeq(pr.areas_de[p], Keep)

(* positions of the sequence from rr on, wrapping around, whose product    *)
(* has an open area; <<>> when there is none                               *)
HeurPick(pr, uso_empaque, rr) ==
  LET n == Len(pr.secuencia)
      order == [m \in 1..n |-> ((rr + m - 2) % n) + 1]
      Keep(pos) == HeurOpenAreas(pr, uso_empaque, pr.secuencia[pos]) # <<>>
  IN SelectSeq(order, Keep)

(* variant: the share of a line is not capped by its free capacity *)
HeurAllocUncapped(share, free, left) == Min(share, left)

HeurAlloc(share, free, left) == Min(Min(share, free), left)

(* the lines[1..n] of one row processed from the state st *)
RECURSIVE HeurLines(_, _, _, _, _, _, _)
HeurLines(pr, row, lines, free0, total, n, st) ==
  IF n = 0 THEN st
  ELSE LET s1 == HeurLines(pr, row, lines, free0, total, n - 1, st)
           j == lines[n]
           share == (row.n * free0[j]) \div total
           amount == HeurAlloc(share, free0[j], HeurPackLeft(pr, s1.uso_empaque))
           pick == HeurPick(pr, s1.uso_empaque, s1.rr)
       IN IF amount <= 0 \/ pick = <<>> THEN s1
          ELSE LET p == pr.secuencia[pick[1]]
                   e == HeurOpenAreas(pr, s1.uso_empaque, p)[1]
                   k == pr.formato_de[p]
                   c == C_inv(pr)[row.calibre]
               IN [uso_linea |-> [s1.uso_linea EXCEPT ![j] = @ + amount],
                   uso_empaque |-> [s1.uso_empaque EXCEPT ![e] = @ + amount],
                   rr |-> (pick[1] % Len(pr.secuencia)) + 1,
                   rows |-> Append(s1.rows,
                              [linea |-> j, empaque |-> e, producto |-> p,
                               formato_caja |-> k, calibre |-> row.calibre,
                               cajas |-> amount \div Ukc(pr, k, c),
                               piezas |-> amount])]

(* one row of available pieces *)
HeurRow(pr, row, st) ==
  LET lines == HeurCompatLines(pr, row.calibre)
      free0 == [j \in SeqToSet(pr.lineas) |-> HeurFree(pr, st.uso_linea, j)]
      total == ISum([n \in 1..Len(lines) |-> free0[lines[n]]], Len(lines))
  IN IF total = 0 THEN st
     ELSE HeurLines(pr, row, lines, free0, total, Len(lines), st)

(* the order of the character strings that occur in the rows *)
StrRank ==
  [L1 |-> 1, L2 |-> 2, Filete |-> 1, HON |-> 2] @@ ("7-8" :> 1 @@ "8-9" :> 2)

RowBefore(a, b) ==
  \/ StrRank[a.linea] < StrRank[b.linea]
  \/ /\ a.linea = b.linea
     /\ \/ StrRank[a.producto] < StrRank[b.producto]
        \/ a.producto = b.producto /\ StrRank[a.calibre] <= StrRank[b.calibre]

RECURSIVE HeurInsert(_, _)
HeurInsert(sorted, r) ==
  IF sorted = <<>> THEN <<r>>
  ELSE IF RowBefore(sorted[Len(sorted)], r) THEN Append(sorted, r)
  ELSE Append(HeurInsert(SubSeq(sorted, 1, Len(sorted) - 1), r), sorted[Len(sorted)])

RECURSIVE HeurSort(_, _)
HeurSort(rows, n) == IF n = 0 THEN <<>> ELSE HeurInsert(HeurSort(rows, n - 1), rows[n])

NOTE_NO_ALLOCATION == "No fue posible asignar"

HeuristicStart ==
  /\ pc = "h_start"
  /\ heur' = [i |-> 1,
              uso_linea |-> [j \in SeqToSet(params.lineas) |-> 0],
              uso_empaque |-> [e \in SeqToSet(params.areas_empaque) |-> 0],
              rr |-> 1, usage |-> <<>>]
  /\ plan_df' = [columns |-> PLAN_COLUMNS, rows |-> <<>>]
  /\ notes' = <<>>
  /\ pc' = "h_rows"
  /\ UNCHANGED <<params, inputs_df, VARS, ac, dpkc, constrs, status, X, objVal,
                 logs, exc, gvars>>

HeuristicRow ==
  /\ pc = "h_rows"
  /\ heur.i <= Len(inputs_df.rows)
  /\ LET st == HeurRow(params, inputs_df.rows[heur.i],
                       [uso_linea |-> heur.uso_linea, uso_empaque |-> heur.uso_empaque,
                        rr |-> heur.rr, rows |-> plan_df.rows])
     IN /\ heur' = [heur EXCEPT !.i = @ + 1, !.uso_linea = st.uso_linea,
                                !.uso_empaque = st.uso_empaque, !.rr = st.rr]
        /\ plan_df' = [plan_df EXCEPT !.rows = st.rows]
  /\ UNCHANGED <<params, inputs_df, pc, VARS, ac, dpkc, constrs, status, X, objVal,
                 notes, logs, exc, gvars>>

HeuristicFinish ==
  /\ pc = "h_rows"
  /\ heur.i > Len(inputs_df.rows)
  /\ plan_df' = [plan_df EXCEPT !.rows = HeurSort(plan_df.rows, Len(plan_df.rows))]
  /\ notes' = IF plan_df.rows = <<>> THEN Append(notes, NOTE_NO_ALLOCATION) ELSE notes
  /\ heur' = [heur EXCEPT !.usage =
                 [j \in SeqToSet(params.lineas) |->
                    Norm(100 * heur.uso_linea[j], params.mj[j])]]
  /\ pc' = "h_returned"
  /\ UNCHANGED <<params, inputs_df, VARS, ac, dpkc, constrs, status, X, objVal,
                 logs, exc, gvars>>

(* the KPI reporter on the outputs of the heuristic, which carry the usage *)
HeuristicKpis ==
  /\ pc = "h_returned"
  /\ kpis_text' = <<build_kpis_text([plan_df |-> plan_df, notes |-> notes,
                                     usage |-> heur.usage], params)>>
  /\ pc' = "h_reported"
  /\ UNCHANGED <<heur, params, inputs_df, VARS, ac, dpkc, constrs, status, X, objVal,
                 plan_df, notes, logs, exc, yaml_file, yaml_copy, dem_file, csv_file,
                 gpc, state, buttons, tree, popup, snapshot, delivered, xls_file>>

NextH == HeuristicStart \/ HeuristicRow \/ HeuristicFinish \/ HeuristicKpis

(* Scenario D is Scenario A handed to the heuristic: 500 raw units of two  *)
(* pieces each are 1000 available pieces of size "7-8".                    *)
ScenarioD ==
  [productos |-> <<"Filete">>,
   lineas |-> <<"L1", "L2">>,
   areas_empaque |-> <<"Empaque">>,
   formatos_caja |-> <<"K1">>,
   C_map |-> C_MAP_DEFAULT,
   ukc |-> [K1 |-> (6 :> 5)],
   mj |-> [L1 |-> 1000, L2 |-> 800],
   ne |-> [Empaque |-> 2000],
   compatibilidad |-> [L1 |-> <<"7-8">>, L2 |-> <<"7-8">>],
   areas_de |-> [Filete |-> <<"Empaque">>],
   secuencia |-> <<"Filete">>,
   formato_de |-> [Filete |-> "K1"]]

FrameD ==
  [columns |-> {"calibre", "piezas"}, rows |-> <<[calibre |-> "7-8", n |-> 1000]>>]

HeurBase ==
  [productos |-> <<"Filete", "HON">>,
   lineas |-> <<"L1", "L2">>,
   areas_empaque |-> <<"Congelado", "Fresco">>,
   formatos_caja |-> <<"K1">>,
   C_map |-> C_MAP_DEFAULT,
   ukc |-> [K1 |-> (6 :> 1 @@ 7 :> 2)],
   compatibilidad |-> [L1 |-> <<"7-8", "8-9">>, L2 |-> <<"7-8">>],
   areas_de |-> [Filete |-> <<"Fresco", "Congelado">>, HON |-> <<"Congelado">>],
   formato_de |-> [Filete |-> "K1", HON |-> "K1"]]

HeurCapOpts ==
  { [mj |-> [L1 |-> MaxCap, L2 |-> MaxCap - 1], ne |-> [Congelado |-> 2, Fresco |-> 1]],
    [mj |-> [L1 |-> 1, L2 |-> MaxCap], ne |-> [Congelado |-> MaxCap, Fresco |-> MaxCap + 1]] }

HeurSeqOpts == {<<"Filete">>, <<"HON", "Filete">>}

HeurParams ==
  {HeurBase @@ c @@ [secuencia |-> q] : c \in HeurCapOpts, q \in HeurSeqOpts}

HeurPieces == {1, MaxAvail, 2 * MaxAvail + 1}

HeurRowOpts == {[calibre |-> lab, n |-> n] : lab \in {"7-8", "8-9"}, n \in HeurPieces}

HeurFrames ==
  {[columns |-> {"calibre", "piezas"}, rows |-> rs] :
     rs \in {<<r>> : r \in HeurRowOpts} \cup {<<r, r2>> : r \in HeurRowOpts, r2 \in HeurRowOpts}}

InitH ==
  /\ \/ params = ScenarioD /\ inputs_df = FrameD
     \/ params \in HeurParams /\ inputs_df \in HeurFrames
  /\ pc = "h_start"
  /\ VARS = <<>>
  /\ ac = <<>>
  /\ dpkc = <<>>
  /\ constrs = NoConstrs
  /\ status = "LOADED"
  /\ X = <<>>
  /\ objVal = 0
  /\ plan_df = NoPlan
  /\ notes = <<>>
  /\ logs = {}
  /\ exc = "none"
  /\ heur = HeurIdle
  /\ InitNoGui

SpecH == InitH /\ [][NextH]_vars

(***************************************************************************)
(* Capacity editing.  on_edit_cap (lines 425-439) loads the YAML into      *)
(* state["params_loaded"] and opens the popup, which grabs the input.      *)
(***************************************************************************)
OnEditCap ==
  /\ gpc = "idle"
  /\ popup = "closed"
  /\ buttons["edit_cap"] = "normal"
  /\ yaml_file # <<>>
  /\ LET r == load_params(yaml_file[1])
     IN /\ ~ r.raises
        /\ state' = [state EXCEPT !.params_loaded = <<r.value>>]
        /\ snapshot' = [snapshot EXCEPT !.edit = <<r.value>>]
        /\ popup' = "open"
  /\ UNCHANGED <<heur, xls_file, params, inputs_df, pc, VARS, ac, dpkc, constrs, status, X, objVal,
                 plan_df, notes, logs, exc, yaml_file, yaml_copy, dem_file, csv_file,
                 gpc, buttons, kpis_text, tree, delivered>>

(* dict.update *)
Update(d, new) == [k \in DOMAIN d \cup DOMAIN new |-> IF k \in DOMAIN new THEN new[k] ELSE d[k]]

(* data.setdefault("mj", {}).update(new_mj), lines 206-207 and 228-229 *)
UpdateDoc(data, new) ==
  Put(Put(data, "mj", Update(Get(data, "mj", <<>>), new.mj)),
      "ne", Update(Get(data, "ne", <<>>), new.ne))

(* collect_new, lines 180-196: the capacities typed in the entries; any    *)
(* text that float() accepts is taken, a negative number included          *)
CollectNew ==
  { [mj |-> [Emparrillado |-> 1], ne |-> <<>>],
    [mj |-> [Emparrillado |-> -1], ne |-> <<>>] }

(* on_actualizar, lines 198-213: the loaded dict is updated, then the file *)
OnActualizar ==
  /\ popup = "open"
  /\ \E new \in CollectNew :
       LET pl == state.params_loaded[1]
       IN /\ state' = [state EXCEPT !.params_loaded =
                         <<Put(Put(pl, "mj", Update(pl.mj, new.mj)),
                               "ne", Update(pl.ne, new.ne))>>]
          /\ \/ yaml_file' = <<UpdateDoc(yaml_file[1], new)>>
             \/ yaml_file' = yaml_file
  /\ UNCHANGED <<heur, xls_file, params, inputs_df, pc, VARS, ac, dpkc, constrs, status, X, objVal,
                 plan_df, notes, logs, exc, yaml_copy, dem_file, csv_file, gpc,
                 buttons, kpis_text, tree, popup, snapshot, delivered>>

(* on_guardar_como, lines 215-234: the edited document goes to another file *)
OnGuardarComo ==
  /\ popup = "open"
  /\ \E new \in CollectNew :
       yaml_copy' = <<UpdateDoc(yaml_file[1], new)>>
  /\ UNCHANGED <<heur, xls_file, params, inputs_df, pc, VARS, ac, dpkc, constrs, status, X, objVal,
                 plan_df, notes, logs, exc, yaml_file, dem_file, csv_file, gpc, state,
                 buttons, kpis_text, tree, popup, snapshot, delivered>>

(* on_cerrar, lines 236-237 *)
OnCerrar ==
  /\ popup = "open"
  /\ popup' = "closed"
  /\ UNCHANGED <<heur, xls_file, params, inputs_df, pc, VARS, ac, dpkc, constrs, status, X, objVal,
                 plan_df, notes, logs, exc, yaml_file, yaml_copy, dem_file, csv_file,
                 gpc, state, buttons, kpis_text, tree, snapshot, delivered>>

(***************************************************************************)
(* exporters.py export_excel (lines 61-109): the workbook written for a    *)
(* result.  Sheet "Planificacion" holds the plan rows, each "Resumen"      *)
(* sheet the pieces and boxes summed by one column (written by pieces,     *)
(* largest first), sheet "KPIs" the KPI text; the sheets "Uso_lineas" and  *)
(* "Notas" exist only when the result has a usage table and notes.         *)
(***************************************************************************)
RESUMEN_KEYS == {"linea", "empaque", "producto", "formato_caja", "calibre"}

make_resumen(rows) ==
  [key \in RESUMEN_KEYS |->
     { [clave |-> v,
        piezas |-> ISum([i \in DOMAIN rows |-> IF rows[i][key] = v THEN rows[i].piezas ELSE 0],
                        Len(rows)),
        cajas |-> ISum([i \in DOMAIN rows |-> IF rows[i][key] = v THEN rows[i].cajas ELSE 0],
                       Len(rows))] :
       v \in {rows[i][key] : i \in DOMAIN rows} }]

export_excel(outputs) ==
  LET usage == Get(outputs, "usage", <<>>)
      sheets == [Planificacion |-> outputs.plan_df.rows,
                 Resumen |-> make_resumen(outputs.plan_df.rows),
                 KPIs |-> outputs.kpis_text]
      with_usage == IF DOMAIN usage # {} THEN Put(sheets, "Uso_lineas", usage) ELSE sheets
  IN IF outputs.notes # <<>> THEN Put(with_usage, "Notas", outputs.notes) ELSE with_usage

(* on_export_xls, lines 472-488: with a stored result and a chosen path    *)
(* the workbook is written; when the dialog is cancelled or the writer     *)
(* raises, nothing is written.  after_failure records whether the run      *)
(* before the export failed.                                               *)
OnExportXls ==
  /\ gpc = "idle"
  /\ popup = "closed"
  /\ buttons["xls"] = "normal"
  /\ state.last_outputs # <<>>
  /\ \E written \in BOOLEAN :
       xls_file' = IF written
                   THEN <<[book |-> export_excel(state.last_outputs[1]),
                           after_failure |-> delivered.failure = 1]>>
                   ELSE xls_file
  /\ UNCHANGED <<heur, params, inputs_df, pc, VARS, ac, dpkc, constrs, status, X, objVal,
                 plan_df, notes, logs, exc, yaml_file, yaml_copy, dem_file, csv_file,
                 gpc, state, buttons, kpis_text, tree, popup, snapshot, delivered>>

NextG ==
  \/ OnRun \/ PipelineLoadParams \/ PipelineLoadDemand \/ PipelineLoadInputs
  \/ BuildModel \/ Optimize \/ Extract \/ ExceptHandler \/ ExceptHandlerFails
  \/ PipelineReturn \/ PipelineRaised \/ OnRunExcept \/ OnRunFinally
  \/ OnEditCap \/ OnActualizar \/ OnGuardarComo \/ OnCerrar

(***************************************************************************)
(* Files explored by the runs started from the window.  FullDoc is a       *)
(* complete configuration; the other documents lack one key each.          *)
(***************************************************************************)
FullDoc ==
  [productos |-> <<"Filete">>,
   lineas |-> <<"Emparrillado">>,
   areas_empaque |-> <<"Congelado", "Fresco">>,
   formatos_caja |-> <<"K1">>,
   ukc |-> [K1 |-> (6 :> 1 @@ 7 :> 0)],
   wc |-> (6 :> Q(8)),
   sp |-> [Filete |-> Q(1)],
   yp |-> [Filete |-> Q(1)],
   qp |-> [Filete |-> 1],
   rpk |-> [Filete |-> [K1 |-> 5]],
   mj |-> [Emparrillado |-> 2],
   ne |-> [Congelado |-> 2, Fresco |-> 1],
   bcj |-> (StrKey(6, "Emparrillado") :> 1 @@ StrKey(7, "Emparrillado") :> 1),
   compatibilidad_empaque |-> [Filete |-> <<"Fresco">>],
   ac |-> (6 :> 5)]

REQUIRED_KEYS ==
  {"productos", "lineas", "areas_empaque", "formatos_caja",
   "ukc", "wc", "sp", "yp", "qp", "rpk", "mj", "ne"}

OPTIONAL_KEYS == {"compatibilidad_empaque"}

LINE_COMPAT_KEYS == {"bcj", "compatibilidad_indices", "compatibilidad"}

(* a document of the older layout: "formatos" holds the products *)
OlderDoc == Put(Pop(FullDoc, "productos"), "formatos", FullDoc.productos)

(* documents giving the line-size compatibility in each accepted shape:    *)
(* size "8-9" (index 7) on the only line, then no pair at all, then a      *)
(* label that is not in the size map                                       *)
CompatBase == Put(Pop(FullDoc, "bcj"), "ukc", [K1 |-> (6 :> 1 @@ 7 :> 1)])

EncodedDocs ==
  { Put(CompatBase, "bcj",
        (StrKey(6, "Emparrillado") :> 0 @@ StrKey(7, "Emparrillado") :> 1)),
    Put(CompatBase, "compatibilidad_indices", [Emparrillado |-> <<7>>]),
    Put(CompatBase, "compatibilidad", [Emparrillado |-> <<"8-9">>]),
    Put(CompatBase, "bcj", (StrKey(6, "Emparrillado") :> 0)),
    Put(CompatBase, "compatibilidad_indices", [Emparrillado |-> <<>>]),
    Put(CompatBase, "compatibilidad", [Emparrillado |-> <<"XL">>]) }

Docs ==
  {FullDoc, OlderDoc}
    \cup {Pop(FullDoc, k) : k \in REQUIRED_KEYS \cup OPTIONAL_KEYS \cup {"bcj"}}
    \cup EncodedDocs

DemandFiles ==
  { [ext |-> "xlsx", columns |-> {"producto", "formato", "calibre", "demanda_cajas"},
     rows |-> <<[producto |-> "Filete", formato |-> "K1", calibre |-> "7-8",
                 demanda_cajas |-> 1]>>],
    [ext |-> "xlsx", columns |-> {"producto", "formato", "calibre_idx", "demanda_cajas"},
     rows |-> <<[producto |-> "Filete", formato |-> "K1", calibre_idx |-> 6,
                 demanda_cajas |-> -1]>>],
    [ext |-> "csv", columns |-> {"producto", "formato", "calibre_idx", "demanda_cajas"},
     rows |-> <<[producto |-> "Filete", formato |-> "K9", calibre_idx |-> 6,
                 demanda_cajas |-> 2],
                [producto |-> "Filete", formato |-> "K1", calibre_idx |-> 7,
                 demanda_cajas |-> 1],
                [producto |-> "Filete", formato |-> "K1", calibre_idx |-> 6,
                 demanda_cajas |-> 2]>>],
    [ext |-> "csv", columns |-> {"calibre", "salmones"},
     rows |-> <<[calibre |-> "7-8", n |-> MaxAvail]>>],
    [ext |-> "csv", columns |-> {"producto", "formato", "calibre", "demanda_cajas"},
     rows |-> <<[producto |-> "Filete", formato |-> "K1", calibre |-> "XL",
                 demanda_cajas |-> 1]>>],
    [ext |-> "csv", columns |-> {"producto", "cajas"},
     rows |-> <<[producto |-> "Filete", cajas |-> 1]>>] }

AvailabilityFiles ==
  { [ext |-> "csv", columns |-> {"calibre", "salmones"},
     rows |-> <<[calibre |-> "7-8", n |-> 1], [calibre |-> "7-8", n |-> MaxAvail - 1]>>],
    [ext |-> "csv", columns |-> {"calibre", "salmones"},
     rows |-> <<[calibre |-> "7-8", n |-> -1]>>],
    [ext |-> "csv", columns |-> {"calibre", "salmones"},
     rows |-> <<[calibre |-> "XL", n |-> MaxAvail], [calibre |-> "7-8", n |-> 1]>>],
    [ext |-> "csv", columns |-> {"calibre"},
     rows |-> <<[calibre |-> "7-8"]>>],
    [ext |-> "txt", columns |-> {"calibre", "salmones"},
     rows |-> <<[calibre |-> "7-8", n |-> 1]>>] }

StandardDemand ==
  CHOOSE f \in DemandFiles : "calibre" \in f.columns /\ f.rows[1].calibre = "7-8"
                             /\ "producto" \in f.columns

StandardAvailability ==
  CHOOSE f \in AvailabilityFiles : f.ext = "csv" /\ Len(f.rows) = 2 /\ f.rows[1].calibre = "7-8"

(* each document with the standard files, and the complete document with  *)
(* every pair of data files                                                *)
FileChoices ==
  {<<d, StandardDemand, StandardAvailability>> : d \in Docs}
    \cup {<<FullDoc, f, g>> : f \in DemandFiles, g \in AvailabilityFiles}

InitG ==
  /\ \E fs \in FileChoices :
       /\ yaml_file = <<fs[1]>>
       /\ dem_file = <<fs[2]>>
       /\ csv_file = <<fs[3]>>
  /\ yaml_copy = <<>>
  /\ gpc = "idle"
  /\ state = [last_outputs |-> <<>>, params_loaded |-> <<>>]
  /\ buttons = [b \in BUTTONS |-> "normal"]
  /\ kpis_text = <<>>
  /\ tree = <<>>
  /\ popup = "closed"
  /\ snapshot = [run |-> <<>>, edit |-> <<>>]
  /\ delivered = [result |-> 0, failure |-> 0]
  /\ params = <<>>
  /\ inputs_df = EmptyFrame
  /\ pc = "none"
  /\ VARS = <<>>
  /\ ac = <<>>
  /\ dpkc = <<>>
  /\ constrs = NoConstrs
  /\ status = "LOADED"
  /\ X = <<>>
  /\ objVal = 0
  /\ plan_df = NoPlan
  /\ notes = <<>>
  /\ logs = {}
  /\ exc = "none"
  /\ xls_file = <<>>
  /\ heur = HeurIdle

SpecG == InitG /\ [][NextG]_vars

(* on_browse_csv, lines 290-297: the path of another availability file *)
OnBrowseCsv ==
  /\ gpc = "idle"
  /\ popup = "closed"
  /\ \E f \in AvailabilityFiles : csv_file' = <<f>>
  /\ UNCHANGED <<heur, xls_file, params, inputs_df, pc, VARS, ac, dpkc, constrs, status, X,
                 objVal, plan_df, notes, logs, exc, yaml_file, yaml_copy, dem_file,
                 gpc, state, buttons, kpis_text, tree, popup, snapshot, delivered>>

(* the window with the complete document and the standard files, where     *)
(* the availability file can be replaced, runs started and the result      *)
(* exported; the capacity popup stays closed                               *)
InitX ==
  /\ InitG
  /\ yaml_file = <<FullDoc>>
  /\ dem_file = <<StandardDemand>>
  /\ csv_file = <<StandardAvailability>>

NextX ==
  \/ OnRun \/ PipelineLoadParams \/ PipelineLoadDemand \/ PipelineLoadInputs
  \/ BuildModel \/ Optimize \/ Extract \/ ExceptHandler \/ ExceptHandlerFails
  \/ PipelineReturn \/ PipelineRaised \/ OnRunExcept \/ OnRunFinally
  \/ OnExportXls \/ OnBrowseCsv

SpecX == InitX /\ [][NextX]_vars

(***************************************************************************)
(* Quantities of a returned plan, read from its rows.                      *)
(***************************************************************************)
Built == pc \in {"optimize", "extract", "returned"} \/ (pc \in {"except", "raised"} /\ exc # "ValueError")

Returned == pc = "returned"

Rows == plan_df.rows

RowIdx(r) == C_inv(params)[r.calibre]

RowsOf(Test(_)) == {i \in 1..Len(Rows) : Test(Rows[i])}

PlanPieces(S) == ISum([i \in 1..Len(Rows) |-> IF i \in S THEN Rows[i].piezas ELSE 0], Len(Rows))

PlanBoxes(S) == ISum([i \in 1..Len(Rows) |-> IF i \in S THEN Rows[i].cajas ELSE 0], Len(Rows))

(* raw units: sum of piecesPerBox * boxCount / (piecesPerUnit * yield) *)
PlanRawUnits(S) ==
  RSum([i \in 1..Len(Rows) |->
          IF i \in S
          THEN RMul(Q(Rows[i].piezas), RInv(SpYp(params, Rows[i].producto)))
          ELSE Q(0)], Len(Rows))

(* pounds: sum of (piecesPerBox * boxCount / piecesPerUnit) * weight * yield *)
PlanMassLb(S) ==
  RSum([i \in 1..Len(Rows) |->
          IF i \in S
          THEN RMul(RMul(Q(Rows[i].piezas), RInv(Sp(params, Rows[i].producto))),
                    RMul(Wc(params, RowIdx(Rows[i])), Yp(params, Rows[i].producto)))
          ELSE Q(0)], Len(Rows))

DivisorsPositive(S) ==
  \A i \in S : Sp(params, Rows[i].producto)[1] > 0 /\ Yp(params, Rows[i].producto)[1] > 0

(***************************************************************************)
(* C1: a tuple (product, line, area, format, size) is a decision variable  *)
(* if and only if piecesPerBox(format, size) > 0, the line is compatible   *)
(* with the size class and the product is compatible with the packing      *)
(* area; each admissible tuple is instantiated once.                       *)
(***************************************************************************)
PiecesPerBoxDefined(k, c) ==
  k \in DOMAIN params.ukc /\ c \in DOMAIN params.ukc[k] /\ params.ukc[k][c] > 0

LineSizeCompatible(c, j) == <<c, j>> \in DOMAIN params.bcj /\ params.bcj[<<c, j>>] = 1

ProductAreaCompatible(p, e) ==
  /\ "compatibilidad_empaque" \in DOMAIN params
  /\ p \in DOMAIN params.compatibilidad_empaque
  /\ \E i \in DOMAIN params.compatibilidad_empaque[p] :
       params.compatibilidad_empaque[p][i] = e

C1_VariablesAreAdmissibleTuples ==
  Built =>
    /\ \A p \in SeqToSet(params.productos), j \in SeqToSet(params.lineas),
          e \in SeqToSet(params.areas_empaque), k \in SeqToSet(params.formatos_caja),
          c \in DOMAIN C_map(params) :
         (\E i \in 1..Len(VARS) : VARS[i] = <<p, j, e, k, c>>)
           <=> (PiecesPerBoxDefined(k, c) /\ LineSizeCompatible(c, j)
                /\ ProductAreaCompatible(p, e))
    /\ \A i, i2 \in 1..Len(VARS) : VARS[i] = VARS[i2] => i = i2

C1_Witness ==
  /\ Built
  /\ VARS # <<>>
  /\ \E p \in SeqToSet(params.productos), j \in SeqToSet(params.lineas),
        e \in SeqToSet(params.areas_empaque), k \in SeqToSet(params.formatos_caja),
        c \in DOMAIN C_map(params) :
       ~ PiecesPerBoxDefined(k, c) /\ LineSizeCompatible(c, j) /\ ProductAreaCompatible(p, e)
  /\ \E p \in SeqToSet(params.productos), j \in SeqToSet(params.lineas),
        e \in SeqToSet(params.areas_empaque), k \in SeqToSet(params.formatos_caja),
        c \in DOMAIN C_map(params) :
       PiecesPerBoxDefined(k, c) /\ ~ LineSizeCompatible(c, j) /\ ProductAreaCompatible(p, e)
  /\ \E p \in SeqToSet(params.productos), j \in SeqToSet(params.lineas),
        e \in SeqToSet(params.areas_empaque), k \in SeqToSet(params.formatos_caja),
        c \in DOMAIN C_map(params) :
       PiecesPerBoxDefined(k, c) /\ LineSizeCompatible(c, j) /\ ~ ProductAreaCompatible(p, e)

(***************************************************************************)
(* C2: for every returned plan and every size class c, the raw units       *)
(* consumed by the rows of size c do not exceed availability[c].           *)
(***************************************************************************)
C2_AvailabilityRespected ==
  Returned =>
    \A c \in DOMAIN C_map(params) :
      LET S == RowsOf(LAMBDA r : RowIdx(r) = c)
      IN DivisorsPositive(S) /\ RLeq(PlanRawUnits(S), Q(Get(ac, c, 0)))

(***************************************************************************)
(* C3: for every returned plan, the pieces on each line do not exceed the  *)
(* line capacity and the pieces through each packing area do not exceed    *)
(* the area capacity.                                                      *)
(***************************************************************************)
C3_CapacitiesRespected ==
  Returned =>
    /\ \A j \in SeqToSet(params.lineas) :
         PlanPieces(RowsOf(LAMBDA r : r.linea = j)) <= params.mj[j]
    /\ \A e \in SeqToSet(params.areas_empaque) :
         PlanPieces(RowsOf(LAMBDA r : r.empaque = e)) <= params.ne[e]

(***************************************************************************)
(* C4: when a demand table is supplied, the boxes of the returned plan     *)
(* summed over lines and areas do not exceed the demand of each (product,  *)
(* format, size) triple that has an admissible tuple.                      *)
(***************************************************************************)
C4_DemandRespected ==
  (Returned /\ "dpkc" \in DOMAIN params) =>
    \A t \in DOMAIN params.dpkc :
      HasVar(VARS, t[1], t[2], t[3]) =>
        PlanBoxes(RowsOf(LAMBDA r : r.producto = t[1] /\ r.formato_caja = t[2]
                                    /\ RowIdx(r) = t[3])) <= params.dpkc[t]

(***************************************************************************)
(* C5: for every returned plan, the mass routed through "Congelado" is at  *)
(* most 22500 kg (pounds divided by 2.20462), and the mass constraint is   *)
(* added for no other area.                                                *)
(***************************************************************************)
(* lb / 2.20462 <= 22500, compared as lb <= 22500 * 2.20462 *)
WithinCeilingKg(lb) == RLeq(lb, RMul(Q(22500), <<220462, 100000>>))

C5_CongeladoMassCeiling ==
  /\ constrs.R7 \subseteq {"Congelado"}
  /\ Returned =>
       LET S == RowsOf(LAMBDA r : r.empaque = "Congelado")
       IN /\ DivisorsPositive(S)
          /\ WithinCeilingKg(PlanMassLb(S))

C5_Witness ==
  /\ Returned
  /\ status \in USABLE
  /\ LET S == RowsOf(LAMBDA r : r.empaque = "Congelado")
         O == RowsOf(LAMBDA r : r.empaque = "Fresco")
     IN /\ S # {}
        /\ DivisorsPositive(S)
        /\ PlanMassLb(S)[1] > 0
        /\ O # {}
        /\ DivisorsPositive(O)
        /\ ~ WithinCeilingKg(PlanMassLb(O))

(***************************************************************************)
(* C6: no returned plan has a row of product "HON" on a line other than    *)
(* "Emparrillado".                                                         *)
(***************************************************************************)
C6_HonOnlyOnEmparrillado ==
  Returned =>
    \A i \in 1..Len(Rows) : Rows[i].producto = "HON" => Rows[i].linea = "Emparrillado"

C6_Witness ==
  /\ Returned
  /\ \E i \in 1..Len(VARS) : VARS[i][1] = "HON" /\ VARS[i][2] # "Emparrillado"
  /\ \E i \in 1..Len(Rows) : Rows[i].producto = "HON" /\ Rows[i].linea = "Emparrillado"

(***************************************************************************)
(* C7: when the engine ends with a status other than optimal or time limit *)
(* with an incumbent, solve_plan writes a diagnostic trace, returns an     *)
(* empty plan with the seven columns and a failure note, and never raises  *)
(* to its caller, also when the failure handling itself fails.             *)
(***************************************************************************)
SolveFailed == status \notin {"LOADED", "OPTIMAL", "TIME_LIMIT"}

C7_FailureNeverRaises ==
  (SolveFailed /\ pc \in {"returned", "raised"}) =>
    /\ pc = "returned"
    /\ logs # {}
    /\ plan_df = [columns |-> PLAN_COLUMNS, rows |-> <<>>]
    /\ notes # <<>> /\ notes[Len(notes)] = NOTE_ERROR

(***************************************************************************)
(* C8: when the engine stops on the time limit with an incumbent, the plan *)
(* is extracted and the notes contain a note identifying the time-limited  *)
(* outcome, one that an optimal solve does not emit.                       *)
(***************************************************************************)
OptimalSolveNotes == {NOTE_PIEZAS, NOTE_R7, NOTE_EMPTY, NOTE_DONE}

C8_TimeLimitNote ==
  (Returned /\ status = "TIME_LIMIT" /\ X # <<>>) =>
    /\ plan_df.rows = PlanRows(params, VARS, X[1])
    /\ \E i \in 1..Len(notes) : notes[i] \notin OptimalSolveNotes

(***************************************************************************)
(* C9: availability 0 for a size class c leaves no row of size c in any    *)
(* returned plan, whatever the pieces per unit and yield of the products,  *)
(* floored values included.                                                *)
(***************************************************************************)
C9_ZeroAvailabilityNoRows ==
  Returned =>
    \A c \in DOMAIN C_map(params) :
      Get(ac, c, 0) = 0 => \A i \in 1..Len(Rows) : RowIdx(Rows[i]) # c

C9_Witness ==
  /\ Returned
  /\ Rows # <<>>
  /\ \E i \in 1..Len(VARS) :
       /\ Get(ac, VARS[i][5], 0) = 0
       /\ i \notin constrs.RX
       /\ SpYp(params, VARS[i][1])[1] = 0
  /\ \E i \in 1..Len(VARS) :
       /\ Get(ac, VARS[i][5], 0) = 0
       /\ SpYp(params, VARS[i][1])[1] > 0

(***************************************************************************)
(* C10: in Scenario A the optimal plan totals 200 boxes and the objective  *)
(* value is 2000.                                                          *)
(***************************************************************************)
C10_ScenarioAOptimum ==
  (Returned /\ status = "OPTIMAL") =>
    /\ PlanBoxes(1..Len(Rows)) = 200
    /\ objVal = 2000

C10_Witness ==
  /\ Returned
  /\ status = "OPTIMAL"
  /\ params = ScenarioA
  /\ \E i \in 1..Len(Rows) : Rows[i].linea = "L1" /\ Rows[i].cajas > 0
  /\ \E i \in 1..Len(Rows) : Rows[i].linea = "L2" /\ Rows[i].cajas > 0

(***************************************************************************)
(* C11: a size class with no compatible line has no decision variable;     *)
(* solve_plan does not fail on it: building the model does not raise, the  *)
(* model is not infeasible, and when the engine returns a point the result *)
(* has no failure note and no row of that size class; when the plan is     *)
(* empty the notes contain the "no valid assignments" note.                *)
(***************************************************************************)
NoCompatibleLine(c) == \A j \in SeqToSet(params.lineas) : ~ LineSizeCompatible(c, j)

HasNote(n) == \E i \in 1..Len(notes) : notes[i] = n

C11_NoCompatibleLineSucceeds ==
  \A c \in DOMAIN C_map(params) :
    NoCompatibleLine(c) =>
      /\ Built => \A i \in 1..Len(VARS) : VARS[i][5] # c
      /\ exc # "ValueError"
      /\ status \notin {"INFEASIBLE", "INF_OR_UNBD"}
      /\ (Returned /\ status \in USABLE /\ X # <<>>) =>
           /\ ~ HasNote(NOTE_ERROR) /\ ~ HasNote(NOTE_NO_CONVERGE)
           /\ \A i \in 1..Len(Rows) : Rows[i].calibre # C_map(params)[c]
           /\ Rows = <<>> => HasNote(NOTE_EMPTY)

C11_Witness ==
  /\ Returned
  /\ status = "OPTIMAL"
  /\ Rows = <<>>
  /\ HasNote(NOTE_EMPTY)
  /\ \E c \in DOMAIN C_map(params) :
       /\ NoCompatibleLine(c)
       /\ PiecesPerBoxDefined("K1", c)
       /\ Get(ac, c, 0) > 0

(***************************************************************************)
(* C12: a configuration document lacking a required key, or lacking every  *)
(* accepted shape of the line-size compatibility, makes load_params raise: *)
(* no run gets past load_params with such a document.                      *)
(***************************************************************************)
DocComplete(doc) ==
  /\ REQUIRED_KEYS \subseteq DOMAIN doc
  /\ LINE_COMPAT_KEYS \cap DOMAIN doc # {}

PastLoadParams == gpc \in {"load_demand", "load_inputs", "solve_plan"}

C12_MissingKeyRaises == PastLoadParams => DocComplete(yaml_file[1])

(***************************************************************************)
(* C13: when the document omits the product-area compatibility, the loaded *)
(* parameters allow every product in every area and the decision variables *)
(* are exactly the tuples with pieces per box and a compatible line.       *)
(***************************************************************************)
OmitsProductArea == "compatibilidad_empaque" \notin DOMAIN yaml_file[1]

DocLineSizeCompatible(c, j) ==
  /\ "bcj" \in DOMAIN yaml_file[1]
  /\ StrKey(c, j) \in DOMAIN yaml_file[1].bcj
  /\ yaml_file[1].bcj[StrKey(c, j)] = 1

C13_OmittedProductAreaAllowsAll ==
  (PastLoadParams /\ OmitsProductArea) =>
    /\ \A p \in SeqToSet(params.productos), e \in SeqToSet(params.areas_empaque) :
         ProductAreaCompatible(p, e)
    /\ (gpc = "solve_plan" /\ Built) =>
         \A p \in SeqToSet(params.productos), j \in SeqToSet(params.lineas),
            e \in SeqToSet(params.areas_empaque), k \in SeqToSet(params.formatos_caja),
            c \in DOMAIN C_map(params) :
           (\E i \in 1..Len(VARS) : VARS[i] = <<p, j, e, k, c>>)
             <=> (PiecesPerBoxDefined(k, c) /\ DocLineSizeCompatible(c, j))

C13_Witness ==
  /\ gpc = "solve_plan"
  /\ Returned
  /\ OmitsProductArea
  /\ \E i \in 1..Len(Rows) : Rows[i].empaque = "Congelado"
  /\ \E i \in 1..Len(VARS) : VARS[i][3] = "Fresco"

(***************************************************************************)
(* C14: the availability solve_plan uses for a size class is the sum of    *)
(* the counts of all input rows carrying its label.                        *)
(***************************************************************************)
RECURSIVE SumOver(_, _)
SumOver(rows, S) ==
  IF S = {} THEN 0
  ELSE LET i == CHOOSE i \in S : TRUE IN rows[i].n + SumOver(rows, S \ {i})

RowsLabelled(lab) == {i \in 1..Len(inputs_df.rows) : inputs_df.rows[i].calibre = lab}

C14_DuplicateLabelsSummed ==
  (Built /\ "salmones" \in inputs_df.columns) =>
    \A c \in DOMAIN C_map(params) :
      Get(ac, c, 0) = SumOver(inputs_df.rows, RowsLabelled(C_map(params)[c]))

C14_Witness ==
  /\ Built
  /\ "salmones" \in inputs_df.columns
  /\ \E i, i2 \in 1..Len(inputs_df.rows) :
       /\ i < i2
       /\ inputs_df.rows[i].calibre = inputs_df.rows[i2].calibre
       /\ inputs_df.rows[i].n > 0 /\ inputs_df.rows[i2].n > 0
       /\ inputs_df.rows[i].n # inputs_df.rows[i2].n
       /\ ac[C_inv(params)[inputs_df.rows[i].calibre]]
            = inputs_df.rows[i].n + inputs_df.rows[i2].n

(***************************************************************************)
(* C15: an availability file with a negative count, or a demand file with  *)
(* a negative demand, is rejected before solve_plan is entered.            *)
(***************************************************************************)
HasNegativeCount(f) ==
  /\ "salmones" \in f.columns
  /\ \E i \in DOMAIN f.rows : f.rows[i].n < 0

HasNegativeDemand(f) ==
  /\ "demanda_cajas" \in f.columns
  /\ \E i \in DOMAIN f.rows : f.rows[i].demanda_cajas < 0

C15_NegativeInputsRejected ==
  (HasNegativeCount(csv_file[1]) \/ HasNegativeDemand(dem_file[1])) => gpc # "solve_plan"

(***************************************************************************)
(* C16: an availability file with a row whose label is not in the size map *)
(* is rejected before solve_plan is entered.                               *)
(***************************************************************************)
HasUnknownLabel(f) ==
  \E i \in DOMAIN f.rows : f.rows[i].calibre \notin {C_MAP_DEFAULT[c] : c \in DOMAIN C_MAP_DEFAULT}

C16_UnknownLabelRejected == HasUnknownLabel(csv_file[1]) => gpc # "solve_plan"

(***************************************************************************)
(* C17: no triple stored in the demand table by load_demand has a format   *)
(* and size without pieces per box.                                        *)
(***************************************************************************)
C17_DemandRowsHavePiecesPerBox ==
  (gpc \in {"load_inputs", "solve_plan"} /\ "dpkc" \in DOMAIN params) =>
    \A t \in DOMAIN params.dpkc : PiecesPerBoxDefined(t[2], t[3])

(***************************************************************************)
(* C18: when a product with a decision variable has pieces per unit or     *)
(* yield zero, so that a divisor of R1 or R7 is replaced by the floor, the *)
(* returned notes contain a note other than the routine ones.              *)
(***************************************************************************)
ROUTINE_NOTES ==
  {NOTE_PIEZAS, NOTE_R7, NOTE_NO_CONVERGE, NOTE_EMPTY, NOTE_DONE, NOTE_ERROR}

FloorApplied ==
  \E i \in 1..Len(VARS) :
    Sp(params, VARS[i][1])[1] = 0 \/ Yp(params, VARS[i][1])[1] = 0

C18_FloorReported ==
  (Returned /\ FloorApplied) => \E i \in 1..Len(notes) : notes[i] \notin ROUTINE_NOTES

(***************************************************************************)
(* C19: a started on_run call delivers at most one of result and failure   *)
(* while it runs and exactly one when its try statement is left; a         *)
(* delivered result is stored and displayed; the four buttons are disabled *)
(* during the call and enabled after it; every step taken during the call  *)
(* brings it closer to its end, so the call completes.                     *)
(***************************************************************************)
AllButtons(st) == \A b \in BUTTONS : buttons[b] = st

(* number of positions between the current one and the end of on_run *)
StepsToEnd ==
  CASE gpc = "idle" -> 0
    [] gpc = "finally" -> 1
    [] gpc = "except" -> 2
    [] gpc = "solve_plan" /\ pc \in {"returned", "raised"} -> 3
    [] gpc = "solve_plan" /\ pc = "except" -> 4
    [] gpc = "solve_plan" /\ pc = "extract" -> 5
    [] gpc = "solve_plan" /\ pc = "optimize" -> 6
    [] gpc = "solve_plan" /\ pc = "start" -> 7
    [] gpc = "load_inputs" -> 8
    [] gpc = "load_demand" -> 9
    [] gpc = "load_params" -> 10
    [] OTHER -> -1

ExactlyOneDelivered ==
  /\ delivered.result + delivered.failure <= 1
  /\ gpc = "finally" => delivered.result + delivered.failure = 1
  /\ (gpc = "finally" /\ delivered.result = 1) =>
       /\ state.last_outputs # <<>>
       /\ kpis_text = <<state.last_outputs[1].kpis_text>>
       /\ tree = state.last_outputs[1].plan_df.rows
  /\ gpc = "idle" => AllButtons("normal")
  /\ gpc # "idle" => AllButtons("disabled")
  /\ StepsToEnd >= 0

C19_RunDeliversExactlyOne ==
  /\ []ExactlyOneDelivered
  /\ [][StepsToEnd > 0 => StepsToEnd' < StepsToEnd]_vars
  /\ [][(gpc = "finally" /\ gpc' = "idle") =>
          (delivered' = delivered /\ AllButtons("normal")')]_vars

C19_Witness ==
  /\ gpc = "idle"
  /\ AllButtons("normal")
  /\ delivered.failure = 1
  /\ state.last_outputs # <<>>
  /\ state.last_outputs[1].plan_df.rows # <<>>

(***************************************************************************)
(* C20: the dictionary returned by load_params keeps the value it was      *)
(* returned with, in the run that loaded it and in the capacity editor.    *)
(***************************************************************************)
C20_SnapshotReadOnly ==
  /\ snapshot.run # <<>> => snapshot.run = <<params>>
  /\ snapshot.edit = state.params_loaded

(***************************************************************************)
(* C21: every line capacity, area capacity, availability and demand value  *)
(* that reaches solve_plan is >= 0, whatever configuration was loaded,     *)
(* whatever capacities were typed in the editor and whatever files were    *)
(* read.                                                                   *)
(***************************************************************************)
C21_NonNegativeAtSolve ==
  gpc = "solve_plan" =>
    /\ \A j \in DOMAIN params.mj : params.mj[j] >= 0
    /\ \A e \in DOMAIN params.ne : params.ne[e] >= 0
    /\ "salmones" \in inputs_df.columns =>
         \A i \in DOMAIN inputs_df.rows : inputs_df.rows[i].n >= 0
    /\ "dpkc" \in DOMAIN params => \A t \in DOMAIN params.dpkc : params.dpkc[t] >= 0
    /\ \A c \in DOMAIN ac : ac[c] >= 0

(***************************************************************************)
(* C23: when the engine holds a point, the rows of the returned plan are   *)
(* exactly the decision variables whose value exceeds the noise floor, one *)
(* row per variable; the row carries the variable's line, area, product    *)
(* and format, the display label of its size, its value as box count and   *)
(* piecesPerBox(format, size) * boxCount as piece count.                   *)
(***************************************************************************)
RowMatches(r, i) ==
  /\ r.producto = VARS[i][1]
  /\ r.linea = VARS[i][2]
  /\ r.empaque = VARS[i][3]
  /\ r.formato_caja = VARS[i][4]
  /\ r.calibre = C_map(params)[VARS[i][5]]
  /\ r.cajas = X[1][i]

PositiveTuples == {i \in 1..Len(VARS) : X[1][i] > 0}

C23_RowsAreThePositiveTuples ==
  (Returned /\ X # <<>>) =>
    /\ plan_df.columns = PLAN_COLUMNS
    /\ Len(Rows) = Cardinality(PositiveTuples)
    /\ \A i \in PositiveTuples : \E r \in 1..Len(Rows) : RowMatches(Rows[r], i)
    /\ \A r \in 1..Len(Rows) : \E i \in PositiveTuples : RowMatches(Rows[r], i)
    /\ \A r \in 1..Len(Rows) :
         Rows[r].piezas = params.ukc[Rows[r].formato_caja][RowIdx(Rows[r])] * Rows[r].cajas

C23_Witness ==
  /\ Returned
  /\ X # <<>>
  /\ PositiveTuples # {}
  /\ \E i \in 1..Len(VARS) : X[1][i] = 0
  /\ \E r \in 1..Len(Rows) : Rows[r].piezas > Rows[r].cajas

(***************************************************************************)
(* C24: for a document that gives the line-size compatibility in one of    *)
(* the three accepted shapes, the parameters returned by load_params hold  *)
(* the relation under "bcj" with "c,j" keys only, and the decision         *)
(* variables built by solve_plan are the tuples admissible for the         *)
(* relation the document states, whatever the shape it was stated in.      *)
(***************************************************************************)
(* the pairs (size index, line) a document declares compatible *)
DocRelation(doc) ==
  IF "bcj" \in DOMAIN doc /\ DOMAIN doc.bcj # {}
  THEN {<<key[2], key[3]>> : key \in {k \in DOMAIN doc.bcj : doc.bcj[k] = 1}}
  ELSE IF "compatibilidad_indices" \in DOMAIN doc
  THEN {cj \in (0..13) \X DOMAIN doc.compatibilidad_indices :
          \E n \in DOMAIN doc.compatibilidad_indices[cj[2]] :
            doc.compatibilidad_indices[cj[2]][n] = cj[1]}
  ELSE IF "compatibilidad" \in DOMAIN doc
  THEN {cj \in (0..13) \X DOMAIN doc.compatibilidad :
          \E n \in DOMAIN doc.compatibilidad[cj[2]] :
            doc.compatibilidad[cj[2]][n] = C_MAP_DEFAULT[cj[1]]}
  ELSE {}

GivesLineCompat(doc) == LINE_COMPAT_KEYS \cap DOMAIN doc # {}

InCanonicalForm(pr, rel) ==
  /\ "bcj" \in DOMAIN pr
  /\ \A key \in DOMAIN pr.bcj : IsStrKey(key)
  /\ {<<key[2], key[3]>> : key \in {k \in DOMAIN pr.bcj : pr.bcj[k] = 1}} = rel

VarsFollowRelation(rel) ==
  \A p \in SeqToSet(params.productos), j \in SeqToSet(params.lineas),
     e \in SeqToSet(params.areas_empaque), k \in SeqToSet(params.formatos_caja),
     c \in DOMAIN C_map(params) :
    (\E i \in 1..Len(VARS) : VARS[i] = <<p, j, e, k, c>>)
      <=> (PiecesPerBoxDefined(k, c) /\ <<c, j>> \in rel /\ ProductAreaCompatible(p, e))

C24_EncodingsEquivalent ==
  (PastLoadParams /\ GivesLineCompat(yaml_file[1])) =>
    /\ InCanonicalForm(params, DocRelation(yaml_file[1]))
    /\ (gpc = "solve_plan" /\ Built) => VarsFollowRelation(DocRelation(yaml_file[1]))

(***************************************************************************)
(* C25: for a non-empty plan returned by solve_plan, the raw units the KPI *)
(* reporter computes from the rows equal the left-hand sides of R1 summed  *)
(* over the size classes, and the mass it computes for "Congelado" equals  *)
(* the left-hand side of R7, both evaluated at the engine's point; the     *)
(* raw units do not exceed the total availability and the mass does not    *)
(* exceed 22500 kg; the usage of each line is 100 * (pieces of the point   *)
(* on the line) / (capacity of the line).                                  *)
(***************************************************************************)
GuardedEq(a, b) ==
  /\ RLeq(a.normal, b.normal) /\ RLeq(b.normal, a.normal)
  /\ RLeq(a.floored, b.floored) /\ RLeq(b.floored, a.floored)

(* sum over c of the left-hand side of R1 at the point X *)
PlanR1Consumption ==
  GuardedSum([i \in 1..Len(VARS) |->
                GuardedDiv(Q(Pieces(params, VARS, X[1], i)), SpYp(params, VARS[i][1]))],
             Len(VARS))

(* left-hand side of R7 at the point X, in pounds *)
PlanR7Mass ==
  GuardedSum([i \in 1..Len(VARS) |->
                IF VARS[i][3] # "Congelado" THEN GuardedZero
                ELSE GuardedDiv(RMul(Q(Pieces(params, VARS, X[1], i)),
                                     RMul(Wc(params, VARS[i][5]), Yp(params, VARS[i][1]))),
                                Sp(params, VARS[i][1]))],
             Len(VARS))

TotalAvailability ==
  ISum([n \in 1..Len(SetC(params)) |-> Get(ac, SetC(params)[n], 0)], Len(SetC(params)))

Reported == pc = "reported" /\ ~ kpis_text[1].sin_resultados

C25_KpisMatchConstraints ==
  Reported =>
    LET k == kpis_text[1]
    IN /\ GuardedEq(k.salmones_total, PlanR1Consumption)
       /\ GuardedEq(k.masa_congelado, PlanR7Mass)
       /\ k.salmones_total.floored = Q(0)
       /\ RLeq(k.salmones_total.normal, Q(TotalAvailability))
       /\ k.masa_congelado.floored = Q(0)
       /\ WithinCeilingKg(k.masa_congelado.normal)
       /\ \A j \in SeqToSet(params.lineas) :
            /\ k.usage[j].floored = Q(0)
            /\ k.usage[j].normal[1] * params.mj[j]
                 = 100 * LinePieces(params, VARS, X[1], j) * k.usage[j].normal[2]

C25_Witness ==
  /\ Reported
  /\ kpis_text[1].salmones_total.normal[2] > 1
  /\ kpis_text[1].masa_congelado.normal[1] > 0
  /\ kpis_text[1].total_piezas > kpis_text[1].total_cajas
  /\ \E j \in SeqToSet(params.lineas) :
       /\ kpis_text[1].usage[j].normal[1] > 0
       /\ kpis_text[1].usage[j].normal[1] < 100 * kpis_text[1].usage[j].normal[2]

(***************************************************************************)
(* C26: when the demand table has at least one entry, the returned plan    *)
(* has no box for a (product, format, size) triple that has a decision     *)
(* variable and no entry in the table.                                     *)
(***************************************************************************)
DemandSupplied == "dpkc" \in DOMAIN params /\ DOMAIN params.dpkc # {}

MissingTriples ==
  {t \in SeqToSet(params.productos) \X SeqToSet(params.formatos_caja)
          \X DOMAIN C_map(params) :
     HasVar(VARS, t[1], t[2], t[3]) /\ t \notin DOMAIN params.dpkc}

C26_MissingTripleIsZeroDemand ==
  (Returned /\ DemandSupplied) =>
    \A t \in MissingTriples :
      \A i \in 1..Len(Rows) :
        ~ (Rows[i].producto = t[1] /\ Rows[i].formato_caja = t[2] /\ RowIdx(Rows[i]) = t[3])

C26_Witness ==
  /\ Returned
  /\ DemandSupplied
  /\ Rows # <<>>
  /\ \E t \in MissingTriples :
       /\ Get(ac, t[3], 0) > 0
       /\ \E i \in 1..Len(VARS) :
            /\ VARS[i][1] = t[1] /\ VARS[i][4] = t[2] /\ VARS[i][5] = t[3]
            /\ i \notin constrs.RX
            /\ ~ Floored(SpYp(params, t[1]))

(***************************************************************************)
(* C22: while and after the heuristic processes the rows of available      *)
(* pieces, the pieces of the plan rows on a line never exceed the capacity *)
(* of the line and the pieces of all plan rows never exceed the packing    *)
(* capacity; the usage the KPI reporter holds for a line is 100 * (pieces  *)
(* of the plan rows on the line) / (capacity of the line).                 *)
(***************************************************************************)
InHeuristic == pc \in {"h_rows", "h_returned", "h_reported"}

PackingCapacity ==
  ISum([n \in 1..Len(params.areas_empaque) |-> params.ne[params.areas_empaque[n]]],
       Len(params.areas_empaque))

ResultShown ==
  /\ kpis_text = <<state.last_outputs[1].kpis_text>>
  /\ tree = state.last_outputs[1].plan_df.rows

C27_ResultChangesOnlyOnSuccess ==
  [][ /\ (state.last_outputs' # state.last_outputs \/ kpis_text' # kpis_text \/ tree' # tree)
         => /\ gpc = "solve_plan" /\ pc = "returned"
            /\ delivered'.result = delivered.result + 1
            /\ delivered'.failure = 0
            /\ ResultShown'
      /\ delivered'.failure # delivered.failure
         => UNCHANGED <<state, kpis_text, tree>>
      /\ xls_file' # xls_file
         => xls_file'[1].book = export_excel(state.last_outputs[1]) /\ ResultShown
    ]_vars

C27_Witness ==
  /\ gpc = "idle"
  /\ delivered = [result |-> 0, failure |-> 1]
  /\ state.last_outputs # <<>>
  /\ state.last_outputs[1].plan_df.rows # <<>>
  /\ ResultShown
  /\ xls_file # <<>>
  /\ xls_file[1].after_failure
  /\ xls_file[1].book.Planificacion = tree

(***************************************************************************)
(* C28: when the engine has stopped with status TIME_LIMIT and holds no    *)
(* solution, solve_plan ends by returning an empty plan with the failure   *)
(* note, never by raising, and the returned plan has no rows.              *)
(***************************************************************************)
TimeLimitNoIncumbent == status = "TIME_LIMIT" /\ X = <<>>

C28_TimeLimitWithoutIncumbent ==
  TimeLimitNoIncumbent =>
    /\ pc # "raised"
    /\ pc = "returned" =>
         /\ plan_df = [columns |-> PLAN_COLUMNS, rows |-> <<>>]
         /\ notes # <<>>
         /\ notes[Len(notes)] = NOTE_ERROR

(***************************************************************************)
(* C29: for an availability frame with a 'piezas' column and no 'salmones' *)
(* column, once solve_plan has read the availability the vector is the     *)
(* configured one (0 for every size when none is configured), the warning  *)
(* note has been appended, and every solution of the engine satisfies R1   *)
(* against that vector: the pieces of the frame are in no constraint.      *)
(***************************************************************************)
AvailabilityRead == pc # "start" /\ ~ EarlyParamsError(params)

ConfiguredAvailability ==
  IF "ac" \in DOMAIN params THEN params.ac ELSE [c \in SeqToSet(SetC(params)) |-> 0]

C29_PiecesLeaveAvailability ==
  (AvailabilityRead /\ HasPiezasOnly(inputs_df)) =>
    /\ HasNote(NOTE_PIEZAS)
    /\ ~ ParamsError(params) =>
         /\ ac = ConfiguredAvailability
         /\ X # <<>> =>
              \A c \in SeqToSet(SetC(params)) :
                R1Holds(params, VARS, ConfiguredAvailability, X[1], c)

C29_Witness ==
  /\ pc = "returned"
  /\ HasPiezasOnly(inputs_df)
  /\ "ac" \in DOMAIN params
  /\ ac = params.ac
  /\ ac[6] # GroupSum(inputs_df.rows, "7-8")
  /\ HasNote(NOTE_PIEZAS)
  /\ Rows # <<>>

====
